---- MODULE Spec2Model ----
(***************************************************************************)
(* A model of the retrieval pipeline of boWatt2-RAG: the chunker           *)
(* (services/chunker.go), the embedder (services/embedder.go), the         *)
(* brute-force vector search (storage/mongodb.go), the retriever           *)
(* (services/retriever.go), the answer generator and the handlers and      *)
(* routes that call them.                                                  *)
(*                                                                         *)
(* A Go string is a sequence of bytes; a byte is written as a one          *)
(* character string.  Go indexes from 0, TLA+ sequences from 1: At(s, i)   *)
(* is the Go expression s[i], Slice(s, i, j) is s[i:j].                    *)
(***************************************************************************)
EXTENDS Integers, Sequences, FiniteSets, TLC

\* --------------------------------------------------------------- bounds
MaxLen == 5
MaxSize == 3
MaxOverlap == 3
MaxWords == 7
MaxBatch == 2
MaxChunks == 3
MaxK == 2
MaxRunes == 4

\* --------------------------------------------------------------- strings
At(s, i) == s[i + 1]

Slice(s, i, j) == SubSeq(s, i + 1, j)

\* The bytes of the model's texts.
Alphabet == {"a", ".", " ", "\n"}

\* unicode.IsSpace on the Latin-1 range.
IsSpace(c) == c \in {" ", "\n", "\t", "\r"}

\* The positions of s that hold no space.
NonSpace(s) == {i \in 1..Len(s) : ~IsSpace(s[i])}

TrimLeft(s) ==
    LET ns == NonSpace(s)
    IN  IF ns = {} THEN <<>>
        ELSE SubSeq(s, CHOOSE i \in ns : \A j \in ns : i <= j, Len(s))

TrimRight(s) ==
    LET ns == NonSpace(s)
    IN  IF ns = {} THEN <<>>
        ELSE SubSeq(s, 1, CHOOSE i \in ns : \A j \in ns : i >= j)

\* A TrimSpace that trims the left side only.
TrimSpace_LeftOnly(s) == TrimLeft(s)

\* strings.TrimSpace
TrimSpace(s) == TrimRight(TrimLeft(s))

\* The first position of sep in s at or after from; 0 when there is none.
FirstSep(s, sep, from) ==
    LET at == {i \in from..Len(s) : s[i] = sep}
    IN  IF at = {} THEN 0 ELSE CHOOSE i \in at : \A j \in at : i <= j

\* strings.Split(s, sep) for a one byte separator: the pieces between the
\* separators, one more than there are separators.
RECURSIVE SplitFrom(_, _, _)
SplitFrom(s, sep, from) ==
    LET p == FirstSep(s, sep, from)
    IN  IF p = 0 THEN <<SubSeq(s, from, Len(s))>>
        ELSE <<SubSeq(s, from, p - 1)>> \o SplitFrom(s, sep, p + 1)

Split(s, sep) == SplitFrom(s, sep, 1)

\* The space of s[lo..hi] nearest to position mid, at distance d or more;
\* 0 when there is none.
RECURSIVE NearestSpace(_, _, _, _, _)
NearestSpace(s, lo, hi, mid, d) ==
    IF mid + d > hi /\ mid - d < lo THEN 0
    ELSE IF mid + d <= hi /\ IsSpace(s[mid + d]) THEN mid + d
    ELSE IF mid - d >= lo /\ IsSpace(s[mid - d]) THEN mid - d
    ELSE NearestSpace(s, lo, hi, mid, d + 1)

\* The maximal runs of non-space bytes of s[lo..hi], in order: those left of
\* a space, then those right of it.
RECURSIVE FieldsIn(_, _, _)
FieldsIn(s, lo, hi) ==
    IF lo > hi THEN <<>>
    ELSE LET m == NearestSpace(s, lo, hi, (lo + hi) \div 2, 0)
         IN  IF m = 0 THEN <<SubSeq(s, lo, hi)>>
             ELSE FieldsIn(s, lo, m - 1) \o FieldsIn(s, m + 1, hi)

\* strings.Fields: the maximal runs of non-space bytes.
Fields(s) == FieldsIn(s, 1, Len(s))

\* parts[lo..hi] joined by sep.
RECURSIVE JoinRange(_, _, _, _)
JoinRange(parts, lo, hi, sep) ==
    IF lo > hi THEN <<>>
    ELSE IF lo = hi THEN parts[lo]
    ELSE LET mid == (lo + hi) \div 2
         IN  JoinRange(parts, lo, mid, sep) \o sep \o JoinRange(parts, mid + 1, hi, sep)

\* strings.Join(parts, sep)
Join(parts, sep) == JoinRange(parts, 1, Len(parts), sep)

\* --------------------------------------------------------------- chunker
\* cleanText: the loop over the lines, one line at a time.
RECURSIVE CleanLines(_, _)
CleanLines(lines, cleanedLines) ==
    IF lines = <<>> THEN cleanedLines
    ELSE LET line == TrimSpace(Head(lines))
         IN  IF line # <<>>
             THEN CleanLines(Tail(lines),
                             Append(cleanedLines, Join(Fields(line), <<" ">>)))
             ELSE CleanLines(Tail(lines), cleanedLines)

\* cleanText without its test for a blank line.
RECURSIVE CleanLinesKeepBlank(_, _)
CleanLinesKeepBlank(lines, cleanedLines) ==
    IF lines = <<>> THEN cleanedLines
    ELSE CleanLinesKeepBlank(Tail(lines),
            Append(cleanedLines, Join(Fields(TrimSpace(Head(lines))), <<" ">>)))

cleanText_KeepBlank(t) == Join(CleanLinesKeepBlank(Split(t, "\n"), <<>>), <<" ">>)

cleanText(t) == Join(CleanLines(Split(t, "\n"), <<>>), <<" ">>)

\* The early returns without the test for an empty text.
EarlyReturn_NoEmptyTest(cleaned, size) ==
    IF Len(cleaned) <= size THEN "single" ELSE "loop"

\* ChunkText's two early returns: "empty", "single", or on to the loop.
EarlyReturn(cleaned, size) ==
    IF Len(cleaned) = 0 THEN "empty"
    ELSE IF Len(cleaned) <= size THEN "single"
    ELSE "loop"

\* The bytes of a character in a Go string, which is UTF-8: one byte for
\* ASCII, three for the CJK terminators U+3002, U+FF01 and U+FF1F.  A byte
\* of 0x80 and above is written as its two hexadecimal digits.
EncodeRune(r) ==
    CASE r = "U+3002" -> <<"E3", "80", "82">>
      [] r = "U+FF01" -> <<"EF", "BC", "81">>
      [] r = "U+FF1F" -> <<"EF", "BC", "9F">>
      [] OTHER -> <<r>>

RECURSIVE UTF8(_)
UTF8(runes) ==
    IF runes = <<>> THEN <<>>
    ELSE EncodeRune(Head(runes)) \o UTF8(Tail(runes))

\* The value of a byte, and rune(b) of a byte b: its value as a code point.
ByteValue(c) ==
    CASE c = "a" -> 97
      [] c = "." -> 46
      [] c = "!" -> 33
      [] c = "?" -> 63
      [] c = " " -> 32
      [] c = "\n" -> 10
      [] c = "\t" -> 9
      [] c = "\r" -> 13
      [] c = "A" -> 65
      [] c = "b" -> 98
      [] c = "c" -> 99
      [] c = "d" -> 100
      [] c = "g" -> 103
      [] c = "h" -> 104
      [] c = "E3" -> 227
      [] c = "EF" -> 239
      [] c = "BC" -> 188
      [] c = "80" -> 128
      [] c = "81" -> 129
      [] c = "82" -> 130
      [] c = "9F" -> 159
      [] OTHER -> 0

\* '.', '!', '?', and the code points of the three CJK terminators.
sentenceEnders == {46, 33, 63, 12290, 65281, 65311}

\* First tier: the last sentence ender in (start, end) followed by a space
\* or by the end of the text; -1 when there is none.
RECURSIVE ScanSentence(_, _, _)
ScanSentence(t, i, start) ==
    IF i <= start THEN 0 - 1
    ELSE IF /\ ByteValue(At(t, i)) \in sentenceEnders
            /\ (i + 1 >= Len(t) \/ IsSpace(At(t, i + 1)))
         THEN i + 1
    ELSE ScanSentence(t, i - 1, start)

\* Second tier: the last double newline.
RECURSIVE ScanParagraph(_, _, _)
ScanParagraph(t, i, start) ==
    IF i <= start THEN 0 - 1
    ELSE IF i + 1 < Len(t) /\ At(t, i) = "\n" /\ At(t, i + 1) = "\n"
         THEN i + 2
    ELSE ScanParagraph(t, i - 1, start)

\* Third tier: the last space.
RECURSIVE ScanSpace(_, _, _)
ScanSpace(t, i, start) ==
    IF i <= start THEN 0 - 1
    ELSE IF IsSpace(At(t, i)) THEN i + 1
    ELSE ScanSpace(t, i - 1, start)

findSentenceBoundary(t, start, end) ==
    IF end <= start THEN end
    ELSE LET s1 == ScanSentence(t, end - 1, start)
             s2 == ScanParagraph(t, end - 1, start)
             s3 == ScanSpace(t, end - 1, start)
         IN  IF s1 >= 0 THEN s1
             ELSE IF s2 >= 0 THEN s2
             ELSE IF s3 >= 0 THEN s3
             ELSE end

\* The safety margin added to the iteration bound.
SafetyMargin == 1000

\* maxIterations, from minChunkSize.
MaxIterations(len, size, overlap) ==
    LET minChunkSize == IF size - overlap <= 0 THEN 1 ELSE size - overlap
    IN  (len \div minChunkSize) + SafetyMargin

\* The window's end with the boundary accepted already at start + overlap.
WindowEnd_BoundaryAtLeast(t, start, size, overlap) ==
    LET raw == IF start + size > Len(t) THEN Len(t) ELSE start + size
    IN  IF raw < Len(t)
        THEN LET sentenceEnd == findSentenceBoundary(t, start, raw)
             IN  IF sentenceEnd >= start + overlap THEN sentenceEnd ELSE raw
        ELSE raw

\* The window's end with a raw end one position too far.
WindowEnd_OneTooFar(t, start, size, overlap) ==
    LET raw == IF start + size + 1 > Len(t) THEN Len(t) ELSE start + size + 1
    IN  IF raw < Len(t)
        THEN LET sentenceEnd == findSentenceBoundary(t, start, raw)
             IN  IF sentenceEnd > start + overlap THEN sentenceEnd ELSE raw
        ELSE raw

\* The window's end: the raw end, moved to the boundary when that lies
\* beyond start + overlap.
WindowEnd(t, start, size, overlap) ==
    LET raw == IF start + size > Len(t) THEN Len(t) ELSE start + size
    IN  IF raw < Len(t)
        THEN LET sentenceEnd == findSentenceBoundary(t, start, raw)
             IN  IF sentenceEnd > start + overlap THEN sentenceEnd ELSE raw
        ELSE raw

\* The next start without the forced advance.
NextStart_NoForce(oldStart, end, overlap) ==
    IF end - overlap < 0 THEN 0 ELSE end - overlap

\* The next start with the advance forced only when the start would go back.
NextStart_OnlyBackwards(oldStart, end, overlap) ==
    LET s == IF end - overlap < 0 THEN 0 ELSE end - overlap
    IN  IF s < oldStart THEN oldStart + 1 ELSE s

\* The next start: end - overlap, not below 0, and beyond the old start.
NextStart(oldStart, end, overlap) ==
    LET s == IF end - overlap < 0 THEN 0 ELSE end - overlap
    IN  IF s <= oldStart THEN oldStart + 1 ELSE s

\* text[start:end] is in range.
SliceOk(t, start, end) == 0 <= start /\ start <= end /\ end <= Len(t)

\* ------------------------------------------------------------- float32
\* A float32 value that is zero or a positive normal number: m = 0 for zero,
\* else the value is m * 2^e with 2^23 <= m < 2^24 (24 significant bits).
\* Every operation rounds to nearest, ties to even, as IEEE 754 does.
F32Zero == [m |-> 0, e |-> 0]

\* The float32 with 24-bit quotient mant, whose discarded part is rest of
\* half + half (and sticky when bits below rest were dropped too).
F32Round(mant, rest, half, sticky, e) ==
    LET up == \/ rest > half
              \/ rest = half /\ sticky
              \/ rest = half /\ ~sticky /\ mant % 2 = 1
        r  == IF up THEN mant + 1 ELSE mant
    IN  IF r = 2^24 THEN [m |-> 2^23, e |-> e + 1] ELSE [m |-> r, e |-> e]

\* float32(n) of an integer 0 <= n < 2^24: exact.
F32FromInt(n) ==
    IF n = 0 THEN F32Zero
    ELSE LET k == CHOOSE k \in 0..23 : n * 2^k >= 2^23
         IN  [m |-> n * 2^k, e |-> 0 - k]

\* a + b
F32Add(a, b) ==
    IF a.m = 0 THEN b
    ELSE IF b.m = 0 THEN a
    ELSE LET hi == IF a.e >= b.e THEN a ELSE b
             lo == IF a.e >= b.e THEN b ELSE a
             d  == hi.e - lo.e
         IN  IF d >= 26 THEN hi
             ELSE LET S      == hi.m * 8 + (lo.m * 8) \div 2^d
                      sticky == (lo.m * 8) % 2^d # 0
                  IN  IF S >= 2^27
                      THEN F32Round(S \div 16, S % 16, 8, sticky, hi.e + 1)
                      ELSE F32Round(S \div 8, S % 8, 4, sticky, hi.e)

\* a * b: the 48-bit product from 12-bit halves.
F32Mul(a, b) ==
    IF a.m = 0 \/ b.m = 0 THEN F32Zero
    ELSE LET ah    == a.m \div 2^12
             al    == a.m % 2^12
             bh    == b.m \div 2^12
             bl    == b.m % 2^12
             cross == ah * bl + al * bh
             low   == (cross % 2^12) * 2^12 + al * bl
             lo    == low % 2^24
             hi    == ah * bh + cross \div 2^12 + low \div 2^24
         IN  IF hi >= 2^23
             THEN F32Round(hi, lo, 2^23, FALSE, a.e + b.e + 24)
             ELSE F32Round(hi * 2 + lo \div 2^23, lo % 2^23, 2^22, FALSE,
                           a.e + b.e + 23)

\* One step of long division: <<remainder, quotient>> after bits more bits.
F32DivStep(rq, den, bits) ==
    <<(rq[1] * 2^bits) % den, rq[2] * 2^bits + (rq[1] * 2^bits) \div den>>

\* a / b for b # 0: the quotient of the mantissas to 26 fractional bits.
F32Div(a, b) ==
    IF a.m = 0 THEN F32Zero
    ELSE LET s0 == <<a.m % b.m, a.m \div b.m>>
             s1 == F32DivStep(s0, b.m, 6)
             s2 == F32DivStep(s1, b.m, 6)
             s3 == F32DivStep(s2, b.m, 6)
             s4 == F32DivStep(s3, b.m, 6)
             s5 == F32DivStep(s4, b.m, 2)
             Q  == s5[2]
             sticky == s5[1] # 0
         IN  IF Q >= 2^26
             THEN F32Round(Q \div 8, Q % 8, 4, sticky, a.e - b.e - 23)
             ELSE F32Round(Q \div 4, Q % 4, 2, sticky, a.e - b.e - 24)

\* a > b
F32Greater(a, b) ==
    /\ a.m # 0
    /\ \/ b.m = 0
       \/ a.e > b.e
       \/ a.e = b.e /\ a.m > b.m

\* One Newton step z = (z + x/z) / 2, i more times.
RECURSIVE sqrtLoop(_, _, _)
sqrtLoop(x, z, i) ==
    IF i = 0 THEN z
    ELSE sqrtLoop(x, F32Div(F32Add(z, F32Div(x, z)), F32FromInt(2)), i - 1)

sqrt(x) == IF x.m = 0 THEN F32Zero ELSE sqrtLoop(x, x, 10)

\* ------------------------------------------------------------ embedder
\* make([]float32, 128)
embeddingSize == 128

\* strings.ToLower, on the bytes of this model.
ToLowerByte(c) == IF c = "A" THEN "a" ELSE c

ToLower(s) == [i \in 1..Len(s) |-> ToLowerByte(s[i])]

\* The cutset of strings.Trim(word, ".,!?;:\"'()[]{}").
cutset == {".", ",", "!", "?", ";", ":", "\"", "'", "(", ")", "[", "]", "{", "}"}

\* strings.Trim(s, cut)
Trim(s, cut) ==
    LET keep == {i \in 1..Len(s) : s[i] \notin cut}
    IN  IF keep = {} THEN <<>>
        ELSE SubSeq(s, CHOOSE i \in keep : \A j \in keep : i <= j,
                       CHOOSE i \in keep : \A j \in keep : j <= i)

\* The map wordCounts after the loop over words: the trimmed words that are
\* not empty, each with the number of its occurrences.
WordCounts(words) ==
    LET trimmed == [i \in 1..Len(words) |-> Trim(words[i], cutset)]
        keys    == {trimmed[i] : i \in 1..Len(words)} \ {<<>>}
    IN  [w \in keys |-> Cardinality({i \in 1..Len(words) : trimmed[i] = w})]

\* hash = hash*31 + int(char) over the characters of word, from character i
\* on.  (No word of this model is long enough for the int to wrap.)
RECURSIVE WordHash(_, _, _)
WordHash(word, i, hash) ==
    IF i > Len(word) THEN hash
    ELSE WordHash(word, i + 1, hash * 31 + ByteValue(word[i]))

\* pos := (hash & 0x7FFFFFFF) % 128: the low seven bits of hash.
BucketOf(word) == WordHash(word, 1, 0) % embeddingSize

ZeroEmbedding == [i \in 1..embeddingSize |-> F32Zero]

\* embedding[pos] += float32(count) / float32(len(words))
Accumulate(embedding, word, count, nWords) ==
    [embedding EXCEPT ![BucketOf(word) + 1] =
        F32Add(@, F32Div(F32FromInt(count), F32FromInt(nWords)))]

\* norm += val * val over the entries at the indexes in todo, in index order.
\* (An entry that is zero adds 0 * 0 and leaves norm as it is: only the other
\* entries are visited.)
RECURSIVE SquaredNorm(_, _, _)
SquaredNorm(embedding, todo, norm) ==
    IF todo = {} THEN norm
    ELSE LET i == CHOOSE k \in todo : \A j \in todo : k <= j
         IN  SquaredNorm(embedding, todo \ {i},
                         F32Add(norm, F32Mul(embedding[i], embedding[i])))

\* The normalisation at the end of generateSimpleEmbedding.
Normalize(embedding) ==
    LET norm == SquaredNorm(embedding, {i \in 1..Len(embedding) : embedding[i].m # 0},
                           F32Zero)
    IN  IF F32Greater(norm, F32Zero)
        THEN LET root == sqrt(norm)
             IN  [i \in 1..Len(embedding) |-> F32Div(embedding[i], root)]
        ELSE embedding

\* The loop over wordCounts when the map is iterated in the given order.
RECURSIVE RangeWordCounts(_, _, _, _, _)
RangeWordCounts(embedding, wordCounts, order, i, nWords) ==
    IF i > Len(order) THEN embedding
    ELSE RangeWordCounts(Accumulate(embedding, order[i], wordCounts[order[i]], nWords),
                         wordCounts, order, i + 1, nWords)

\* The iteration orders of a map with the given keys: Go fixes none.
Orders(keys) ==
    {o \in [1..Cardinality(keys) -> keys] :
        \A i, j \in 1..Cardinality(keys) : i # j => o[i] # o[j]}

\* generateSimpleEmbedding(t) when wordCounts is iterated in the given order.
generateSimpleEmbedding(t, order) ==
    LET words == Fields(ToLower(t))
    IN  Normalize(RangeWordCounts(ZeroEmbedding, WordCounts(words), order, 1, Len(words)))

\* Every vector generateSimpleEmbedding(t) can return.
SimpleEmbeddings(t) ==
    {generateSimpleEmbedding(t, o) : o \in Orders(DOMAIN WordCounts(Fields(ToLower(t))))}

\* The words the texts given to the embedder are made of: "a", "A." (the
\* same token once lowered and trimmed), "cd" and "gh" (which hash to the
\* bucket of "a"), "b" (which hashes to another bucket), and "." (a word that
\* is trimmed to nothing).
EmbedVocabulary ==
    << <<"a">>, <<"A", ".">>, <<"c", "d">>, <<"g", "h">>, <<"b">>, <<".">> >>

\* The text of the given words of the vocabulary, separated by single spaces.
TextOf(wordList) ==
    Join([i \in 1..Len(wordList) |-> EmbedVocabulary[wordList[i]]], <<" ">>)

\* The texts of at most n words in which the words come in the order of the
\* vocabulary.
EmbedTexts(n) ==
    {TextOf(l) : l \in {s \in UNION {[1..k -> 1..Len(EmbedVocabulary)] : k \in 0..n} :
                           \A i \in 1..(Len(s) - 1) : s[i] <= s[i + 1]}}

\* -------------------------------------------------------------- search
\* A vector of the store or of a query is a tuple of small naturals: each
\* stands for the float32 of that value.
\* The loop of cosineSimilarity from index i on: <<dotProduct, normA, normB>>.
RECURSIVE CosineSums(_, _, _, _)
CosineSums(a, b, i, sums) ==
    IF i > Len(a) THEN sums
    ELSE LET x == F32FromInt(a[i])
             y == F32FromInt(b[i])
         IN  CosineSums(a, b, i + 1,
                        <<F32Add(sums[1], F32Mul(x, y)),
                          F32Add(sums[2], F32Mul(x, x)),
                          F32Add(sums[3], F32Mul(y, y))>>)

cosineSimilarity(a, b) ==
    IF Len(a) # Len(b) THEN F32Zero
    ELSE LET sums == CosineSums(a, b, 1, <<F32Zero, F32Zero, F32Zero>>)
         IN  IF sums[2].m = 0 \/ sums[3].m = 0 THEN F32Zero
             ELSE F32Div(sums[1], F32Mul(sqrt(sums[2]), sqrt(sums[3])))

\* The vectors of the model: of length 2, and one of length 1.
Vectors == {<<1, 0>>, <<0, 1>>, <<1, 1>>, <<2, 1>>, <<0, 0>>, <<1>>}

\* cosineSimilarity over the vectors of the model, computed once.
CosineTable == {<<a, b, cosineSimilarity(a, b)>> : a \in Vectors, b \in Vectors}

\* score := cosineSimilarity(queryEmbedding, chunk.Embedding)
Score(a, b) == (CHOOSE row \in CosineTable : row[1] = a /\ row[2] = b)[3]

\* s.collection.Find(ctx, filter), with every stored chunk as the candidates.
Find_IgnoreFilter(store, bookID) == store

\* s.collection.Find(ctx, filter): filter is {} for an empty bookID and
\* {book_id: bookID} otherwise.
Find(store, bookID) ==
    SelectSeq(store, LAMBDA chunk : bookID = "" \/ chunk.book_id = bookID)

\* The scoring loop without the length test: a chunk of another length gets
\* the score cosineSimilarity gives it.
RECURSIVE ScoreChunks_ScoreMismatch(_, _, _, _)
ScoreChunks_ScoreMismatch(chunks, queryEmbedding, i, results) ==
    IF i > Len(chunks) THEN results
    ELSE ScoreChunks_ScoreMismatch(chunks, queryEmbedding, i + 1,
             Append(results, [chunk |-> chunks[i],
                              score |-> Score(queryEmbedding, chunks[i].embedding)]))

\* The loop that scores the chunks whose embedding has the query's length.
RECURSIVE ScoreChunks(_, _, _, _)
ScoreChunks(chunks, queryEmbedding, i, results) ==
    IF i > Len(chunks) THEN results
    ELSE IF Len(chunks[i].embedding) # Len(queryEmbedding)
         THEN ScoreChunks(chunks, queryEmbedding, i + 1, results)
         ELSE ScoreChunks(chunks, queryEmbedding, i + 1,
                  Append(results, [chunk |-> chunks[i],
                                   score |-> Score(queryEmbedding, chunks[i].embedding)]))

\* if results[j].Score > results[i].Score { swap }, the other way round.
SwapIfGreater_Ascending(results, i, j) ==
    IF F32Greater(results[i].score, results[j].score)
    THEN [results EXCEPT ![i] = results[j], ![j] = results[i]]
    ELSE results

\* if results[j].Score > results[i].Score { swap } (indexes from 1).
SwapIfGreater(results, i, j) ==
    IF F32Greater(results[j].score, results[i].score)
    THEN [results EXCEPT ![i] = results[j], ![j] = results[i]]
    ELSE results

\* The two loops of the sort: for i, for j := i + 1.
RECURSIVE SortByScore(_, _, _)
SortByScore(results, i, j) ==
    IF i > Len(results) - 1 THEN results
    ELSE IF j > Len(results) THEN SortByScore(results, i + 1, i + 2)
    ELSE SortByScore(SwapIfGreater(results, i, j), i, j + 1)

\* if len(results) > limit { results = results[:limit] }: the slice
\* expression panics for a negative limit.
LimitResults(results, limit) ==
    IF Len(results) > limit
    THEN IF limit < 0 THEN [status |-> "panic", results |-> <<>>]
         ELSE [status |-> "ok", results |-> SubSeq(results, 1, limit)]
    ELSE [status |-> "ok", results |-> results]

\* SimpleVectorSearch: what it fetched, scored and returned.  findOk is
\* whether the store answered the Find.
SimpleVectorSearch(store, queryEmbedding, limit, bookID, findOk) ==
    IF ~findOk
    THEN [status |-> "search error", fetched |-> <<>>, scored |-> <<>>, results |-> <<>>]
    ELSE LET fetched == Find(store, bookID)
             scored  == ScoreChunks(fetched, queryEmbedding, 1, <<>>)
             limited == LimitResults(SortByScore(scored, 1, 2), limit)
         IN  [status |-> limited.status, fetched |-> fetched, scored |-> scored,
              results |-> limited.results]

\* Retriever.Retrieve: the query is embedded (embedOk: whether that
\* succeeded, queryEmbedding: the vector), then the store is searched.
Retrieve(store, embedOk, queryEmbedding, topK, bookID, findOk) ==
    IF ~embedOk
    THEN [status |-> "embedding error", fetched |-> <<>>, scored |-> <<>>, results |-> <<>>]
    ELSE SimpleVectorSearch(store, queryEmbedding, topK, bookID, findOk)

\* --------------------------------------------------------------- generator
\* http.Client.Timeout of the generator's and of the embedder's client, in
\* seconds.
generatorTimeout == 120

embedderTimeout == 60

\* The timeout of every client taken from the embedder.
ClientTimeout_EmbedderForAll(method) == embedderTimeout

\* The timeout of the client a method posts its request with.
ClientTimeout(method) ==
    IF method = "GenerateEmbedding" THEN embedderTimeout ELSE generatorTimeout

\* buildPrompt: the instructions, the numbered context passages, the
\* question and the closing "Answer:", in the order they are written.
buildPrompt(q, passages) ==
    [instructions |-> "You are a helpful assistant answering questions about a book.",
     passages     |-> [i \in 1..Len(passages) |-> <<i, passages[i]>>],
     question     |-> q,
     closing      |-> "Answer:"]

\* What the generation service can do with a request: no reply before the
\* client's timeout, a transport error, a status other than 200, a body that
\* does not decode, or a decoded body with the response text.
GenerateReply(failure, response) == [failure |-> failure, response |-> response]

\* err of g.Client.Post: the request was not answered.
PostFailed(reply) == reply.failure \in {"timeout", "transport"}

\* Generator.GenerateResponse, given what the service does: the prompt it
\* sent, the error ("nil" for none) and the text it returns.
GenerateResponse(q, passages, reply) ==
    LET sent == buildPrompt(q, passages)
    IN  IF PostFailed(reply)
        THEN [sent |-> sent, err |-> "failed to call Ollama API", text |-> <<>>]
        ELSE IF reply.failure = "status"
        THEN [sent |-> sent, err |-> "Ollama API error", text |-> <<>>]
        ELSE IF reply.failure = "decode"
        THEN [sent |-> sent, err |-> "failed to decode response", text |-> <<>>]
        ELSE IF reply.response = <<>>
        THEN [sent |-> sent, err |-> "received empty response from Ollama", text |-> <<>>]
        ELSE [sent |-> sent, err |-> "nil", text |-> TrimSpace(reply.response)]

\* Generator.GenerateWithCustomPrompt.
GenerateWithCustomPrompt(p, reply) ==
    IF PostFailed(reply)
    THEN [sent |-> p, err |-> "failed to call Ollama API", text |-> <<>>]
    ELSE IF reply.failure = "status"
    THEN [sent |-> p, err |-> "Ollama API error", text |-> <<>>]
    ELSE IF reply.failure = "decode"
    THEN [sent |-> p, err |-> "failed to decode response", text |-> <<>>]
    ELSE [sent |-> p, err |-> "nil", text |-> TrimSpace(reply.response)]

\* The end of QueryBook, from the result of GenerateResponse: 500 for an
\* error, else 200 with the answer.
QueryResponse(generated) ==
    IF generated.err # "nil"
    THEN [status |-> "500", error |-> "Failed to generate response", answer |-> <<>>]
    ELSE [status |-> "200", error |-> "", answer |-> generated.text]

VARIABLES
    input,          \* ChunkText's argument
    ChunkSize,      \* Chunker.ChunkSize
    ChunkOverlap,   \* Chunker.ChunkOverlap
    text,           \* the cleaned text
    chunks,         \* the chunks appended so far
    start,          \* the window's start
    iteration,      \* the loop's counter
    maxIterations,  \* the loop's bound
    windows,        \* history: the window [start, end) of every iteration run
    stop,           \* why the loop ended
    cpc             \* where ChunkText is: call, loop, done, panic

chunkerVars == <<input, ChunkSize, ChunkOverlap, text, chunks, start, iteration,
                 maxIterations, windows, stop, cpc>>

VARIABLES
    embedText,      \* generateSimpleEmbedding's argument
    embedCall,      \* which call on embedText is running: the first, the second
    embedPc,        \* where the call is: call, range, done
    words,          \* strings.Fields(strings.ToLower(text))
    wordCounts,     \* the map wordCounts
    unvisited,      \* the keys the range over wordCounts has yet to visit
    embedding,      \* the slice embedding
    returned        \* history: the vectors the calls returned

embedVars == <<embedText, embedCall, embedPc, words, wordCounts, unvisited,
               embedding, returned>>

VARIABLES
    Model,          \* Embedder.Model: "simple" or the name of a remote model
    texts,          \* the argument of GenerateEmbeddingsBatch and GenerateEmbeddings
    bpc,            \* where GenerateEmbeddingsBatch is
    bi,             \* its loop variable i
    embeddings,     \* its slice embeddings
    completed,      \* its counter completed
    mu,             \* its mutex: 0 when free, else the worker that holds it
    wpc,            \* where each worker goroutine is
    wembedding,     \* each worker's local embedding
    batchResult,    \* what GenerateEmbeddingsBatch returned
    gpc,            \* where GenerateEmbeddings is
    gi,             \* its loop variable i
    gembeddings,    \* its slice embeddings
    genResult,      \* what GenerateEmbeddings returned
    requests,       \* history: the requests sent to the embedding service
    wcompleted,     \* per worker: the value of completed read by completed++
    batchSize,      \* the argument batchSize of GenerateEmbeddingsBatch
    inflight        \* the requests of the batch call sent and not yet answered

batchVars == <<Model, texts, bpc, bi, embeddings, completed, mu, wpc, wembedding,
               batchResult, gpc, gi, gembeddings, genResult, requests,
               wcompleted, batchSize, inflight>>

VARIABLES
    store,          \* the chunks collection, in insertion order
    TopK,           \* config.TopK
    caller,         \* the request served last (Evaluate for the evaluator)
    request,        \* the request's top_k and book_id
    call,           \* the arguments Retrieve was called with
    retrieved,      \* what Retrieve fetched, scored and returned
    generation,     \* whether GenerateResponse was called, and what it returned
    outcome,        \* how the caller ended: the response's status
    body            \* the response's body

searchVars == <<store, TopK, caller, request, call, retrieved, generation,
                outcome, body>>

VARIABLES
    genMethod,      \* the method called: GenerateResponse, GenerateWithCustomPrompt,
                    \* or the embedder's GenerateEmbedding
    query,          \* GenerateResponse's argument query
    contexts,       \* GenerateResponse's argument contexts
    prompt,         \* GenerateWithCustomPrompt's argument prompt
    genPc,          \* where the call is: call, waiting (in Client.Post), returned
    elapsed,        \* the seconds since the request was posted
    resp,           \* what the service did with the request
    genReturn       \* what the method returned

genVars == <<genMethod, query, contexts, prompt, genPc, elapsed, resp, genReturn>>

VARIABLES
    retrPc,         \* where Retrieve is: ready, embedding, searching, returned, panic
    retrCalls,      \* the calls of Retrieve so far
    retrArgs,       \* the arguments of the running call: query, topK, bookID
    qEmbedding,     \* its local queryEmbedding
    steps,          \* history: the embedder and store calls made, call by call
    retrReturns     \* history: what each call returned

retrVars == <<retrPc, retrCalls, retrArgs, qEmbedding, steps, retrReturns>>

VARIABLES
    bndText,        \* findSentenceBoundary's argument text
    bndStart,       \* its argument start
    bndEnd,         \* its argument end
    bndReturn,      \* what it returned
    bndPc           \* where the call is: idle, call, returned

bndVars == <<bndText, bndStart, bndEnd, bndReturn, bndPc>>

vars == <<chunkerVars, embedVars, batchVars, searchVars, genVars, retrVars, bndVars>>

\* No reply yet, and nothing returned yet.
NoReply == GenerateReply("pending", <<>>)

NoReturn == [sent |-> buildPrompt("", <<>>), err |-> "pending", text |-> <<>>]

\* No call of the generator.
GenerateIdle ==
    /\ genMethod = "none"
    /\ query = ""
    /\ contexts = <<>>
    /\ prompt = buildPrompt("", <<>>)
    /\ genPc = "idle"
    /\ elapsed = 0
    /\ resp = NoReply
    /\ genReturn = NoReturn

\* No call of Retrieve.
RetrieveIdle ==
    /\ retrPc = "idle"
    /\ retrCalls = 0
    /\ retrArgs = [query |-> "", topK |-> 0, bookID |-> ""]
    /\ qEmbedding = <<>>
    /\ steps = <<>>
    /\ retrReturns = <<>>

\* No call of findSentenceBoundary on its own.
BoundaryIdle ==
    /\ bndText = <<>>
    /\ bndStart = 0
    /\ bndEnd = 0
    /\ bndReturn = 0
    /\ bndPc = "idle"

\* No call of ChunkText.
ChunkerIdle ==
    /\ input = <<>>
    /\ ChunkSize = 0
    /\ ChunkOverlap = 0
    /\ text = <<>>
    /\ chunks = <<>>
    /\ start = 0
    /\ iteration = 0
    /\ maxIterations = 0
    /\ windows = <<>>
    /\ stop = "none"
    /\ cpc = "idle"

\* No call of generateSimpleEmbedding.
EmbedIdle ==
    /\ embedText = <<>>
    /\ embedCall = 0
    /\ embedPc = "idle"
    /\ words = <<>>
    /\ wordCounts = <<>>
    /\ unvisited = {}
    /\ embedding = <<>>
    /\ returned = <<>>

\* No call of GenerateEmbeddingsBatch or GenerateEmbeddings.
BatchIdle ==
    /\ Model = "simple"
    /\ texts = <<>>
    /\ bpc = "idle"
    /\ bi = 0
    /\ embeddings = <<>>
    /\ completed = 0
    /\ mu = 0
    /\ wpc = <<>>
    /\ wembedding = <<>>
    /\ batchResult = "none"
    /\ gpc = "idle"
    /\ gi = 0
    /\ gembeddings = <<>>
    /\ genResult = "none"
    /\ requests = <<>>
    /\ wcompleted = <<>>
    /\ batchSize = 0
    /\ inflight = 0

NoCall == [made |-> FALSE, topK |-> 0, bookID |-> "", queryEmbedding |-> <<>>]

NothingRetrieved ==
    [status |-> "none", fetched |-> <<>>, scored |-> <<>>, results |-> <<>>]

NoGeneration == [invoked |-> FALSE, err |-> "nil", text |-> <<>>]

NoBody ==
    [error |-> "", answer |-> <<>>, sources |-> <<>>, book_id |-> "", books |-> <<>>]

\* No store and no search.
SearchIdle ==
    /\ store = <<>>
    /\ TopK = 0
    /\ caller = "idle"
    /\ request = [TopK |-> 0, BookID |-> ""]
    /\ call = NoCall
    /\ retrieved = NothingRetrieved
    /\ generation = NoGeneration
    /\ outcome = "none"
    /\ body = NoBody

\* All byte sequences of length at most n.
RECURSIVE Texts(_)
Texts(n) ==
    IF n = 0 THEN {<<>>}
    ELSE LET shorter == Texts(n - 1)
         IN  shorter \cup {Append(t, c) : t \in {u \in shorter : Len(u) = n - 1},
                                          c \in Alphabet}

InitChunker ==
    /\ input \in Texts(MaxLen)
    /\ ChunkSize \in (0 - 1)..MaxSize
    /\ ChunkOverlap \in (0 - 1)..MaxOverlap
    /\ text = <<>>
    /\ chunks = <<>>
    /\ start = 0
    /\ iteration = 0
    /\ maxIterations = 0
    /\ windows = <<>>
    /\ stop = "none"
    /\ cpc = "call"
    /\ EmbedIdle /\ BatchIdle /\ SearchIdle /\ GenerateIdle /\ RetrieveIdle /\ BoundaryIdle

\* ChunkText up to its loop: clean, the two early returns, the loop's bound.
ChunkTextBegin ==
    /\ cpc = "call"
    /\ LET cleaned == cleanText(input)
           branch == EarlyReturn(cleaned, ChunkSize)
       IN  /\ text' = cleaned
           /\ IF branch = "empty"
              THEN /\ chunks' = <<>>
                   /\ stop' = "empty"
                   /\ cpc' = "done"
                   /\ maxIterations' = 0
              ELSE IF branch = "single"
              THEN /\ chunks' = <<cleaned>>
                   /\ stop' = "single"
                   /\ cpc' = "done"
                   /\ maxIterations' = 0
              ELSE /\ chunks' = <<>>
                   /\ stop' = "none"
                   /\ cpc' = "loop"
                   /\ maxIterations' = MaxIterations(Len(cleaned), ChunkSize, ChunkOverlap)
    /\ start' = 0
    /\ iteration' = 0
    /\ windows' = <<>>
    /\ UNCHANGED <<input, ChunkSize, ChunkOverlap>>
    /\ UNCHANGED <<embedVars, batchVars, searchVars, genVars, retrVars, bndVars>>

\* One iteration of the loop, whose condition start < len(text) holds.
ChunkTextIteration ==
    /\ cpc = "loop"
    /\ start < Len(text)
    /\ iteration' = iteration + 1
    /\ IF iteration + 1 > maxIterations
       THEN /\ stop' = "maxIterations"
            /\ cpc' = "done"
            /\ UNCHANGED <<chunks, start, windows>>
       ELSE LET end == WindowEnd(text, start, ChunkSize, ChunkOverlap)
            IN  IF ~SliceOk(text, start, end)
                THEN /\ stop' = "slice out of range"
                     /\ cpc' = "panic"
                     /\ UNCHANGED <<chunks, start, windows>>
                ELSE LET chunk == TrimSpace(Slice(text, start, end))
                         next == NextStart(start, end, ChunkOverlap)
                     IN  /\ chunks' = IF Len(chunk) > 0 THEN Append(chunks, chunk)
                                      ELSE chunks
                         /\ windows' = Append(windows,
                                [start |-> start, end |-> end, emitted |-> Len(chunk) > 0])
                         /\ start' = next
                         /\ IF next >= end
                            THEN stop' = "start >= end" /\ cpc' = "done"
                            ELSE IF next >= Len(text)
                            THEN stop' = "end of text" /\ cpc' = "done"
                            ELSE stop' = "none" /\ cpc' = "loop"
    /\ UNCHANGED <<input, ChunkSize, ChunkOverlap, text, maxIterations>>
    /\ UNCHANGED <<embedVars, batchVars, searchVars, genVars, retrVars, bndVars>>

\* The document "The cat sat. The dog ran. Birds flew high.", byte by byte.
Document ==
    <<"T", "h", "e", " ", "c", "a", "t", " ", "s", "a", "t", ".", " ", "T",
      "h", "e", " ", "d", "o", "g", " ", "r", "a", "n", ".", " ", "B", "i",
      "r", "d", "s", " ", "f", "l", "e", "w", " ", "h", "i", "g", "h", ".">>

\* ChunkText called on the document by NewChunker(20, 5).
InitDocument ==
    /\ input = Document
    /\ ChunkSize = 20
    /\ ChunkOverlap = 5
    /\ text = <<>>
    /\ chunks = <<>>
    /\ start = 0
    /\ iteration = 0
    /\ maxIterations = 0
    /\ windows = <<>>
    /\ stop = "none"
    /\ cpc = "call"
    /\ EmbedIdle /\ BatchIdle /\ SearchIdle /\ GenerateIdle /\ RetrieveIdle /\ BoundaryIdle

NextChunker == ChunkTextBegin \/ ChunkTextIteration

\* ChunkText on every short text with every small size and overlap, and on
\* the document.
Spec == (InitChunker \/ InitDocument) /\ [][NextChunker]_vars

\* A long text, "a. a. a. ... a.": with size 3 and overlap 1 the window
\* starts advance by 1 and 2 in turn, and the loop needs more iterations than
\* maxIterations allows.
LongLen == 6 * SafetyMargin + 2

LongText ==
    [i \in 1..LongLen |-> IF i % 3 = 1 THEN "a" ELSE IF i % 3 = 2 THEN "." ELSE " "]

InitLong ==
    /\ input = LongText
    /\ ChunkSize = 3
    /\ ChunkOverlap = 1
    /\ text = <<>>
    /\ chunks = <<>>
    /\ start = 0
    /\ iteration = 0
    /\ maxIterations = 0
    /\ windows = <<>>
    /\ stop = "none"
    /\ cpc = "call"
    /\ EmbedIdle /\ BatchIdle /\ SearchIdle /\ GenerateIdle /\ RetrieveIdle /\ BoundaryIdle

\* A call of ChunkText that has not returned.
RunningCall == cpc \in {"call", "loop"}

\* A step of a running call, by what every such step does to cpc and to
\* iteration: ChunkTextBegin leaves "call", ChunkTextIteration counts one
\* iteration.  A running call can always take such a step.
CallStep ==
    /\ RunningCall
    /\ cpc' \in {"loop", "done", "panic"}
    /\ iteration' \in {iteration, iteration + 1}

\* ChunkText on the short texts and on the long one, every call run to its
\* end: the goroutine that runs ChunkText is scheduled until it returns.
SpecTermination ==
    /\ InitChunker \/ InitLong
    /\ [][NextChunker]_vars
    /\ WF_<<cpc, iteration>>(CallStep)

\* ----------------------------------------- generateSimpleEmbedding, twice
InitEmbed ==
    /\ embedText \in EmbedTexts(MaxWords)
    /\ embedCall = 1
    /\ embedPc = "call"
    /\ words = <<>>
    /\ wordCounts = <<>>
    /\ unvisited = {}
    /\ embedding = <<>>
    /\ returned = <<>>
    /\ ChunkerIdle /\ BatchIdle /\ SearchIdle /\ GenerateIdle /\ RetrieveIdle /\ BoundaryIdle

\* generateSimpleEmbedding up to its loop over wordCounts.
EmbedBegin ==
    /\ embedPc = "call"
    /\ words' = Fields(ToLower(embedText))
    /\ wordCounts' = WordCounts(words')
    /\ unvisited' = DOMAIN wordCounts'
    /\ embedding' = ZeroEmbedding
    /\ embedPc' = "range"
    /\ UNCHANGED <<embedText, embedCall, returned>>
    /\ UNCHANGED <<chunkerVars, batchVars, searchVars, genVars, retrVars, bndVars>>

\* One iteration of for word, count := range wordCounts: the runtime picks
\* any key not visited yet.
EmbedRange ==
    /\ embedPc = "range"
    /\ \E word \in unvisited :
          /\ embedding' = Accumulate(embedding, word, wordCounts[word], Len(words))
          /\ unvisited' = unvisited \ {word}
    /\ UNCHANGED <<embedText, embedCall, embedPc, words, wordCounts, returned>>
    /\ UNCHANGED <<chunkerVars, batchVars, searchVars, genVars, retrVars, bndVars>>

\* The normalisation and the return; the second call follows the first.
EmbedReturn ==
    /\ embedPc = "range"
    /\ unvisited = {}
    /\ returned' = Append(returned, Normalize(embedding))
    /\ IF embedCall = 1
       THEN embedCall' = 2 /\ embedPc' = "call"
       ELSE embedCall' = embedCall /\ embedPc' = "done"
    /\ UNCHANGED <<embedText, words, wordCounts, unvisited, embedding>>
    /\ UNCHANGED <<chunkerVars, batchVars, searchVars, genVars, retrVars, bndVars>>

NextEmbed == EmbedBegin \/ EmbedRange \/ EmbedReturn

SpecEmbed == InitEmbed /\ [][NextEmbed]_vars

\* ------------------------- GenerateEmbeddingsBatch and GenerateEmbeddings
\* The texts given to the batch: "a", "A. cd .", and "a cd gh gh gh gh b".
BatchTexts == {TextOf(<<1>>), TextOf(<<2, 3, 6>>), TextOf(<<1, 3, 4, 4, 4, 4, 5>>)}

\* SimpleEmbeddings over the texts of the batch, computed once.
SimpleEmbeddingTable == {<<t, SimpleEmbeddings(t)>> : t \in BatchTexts}

\* Every vector e.generateSimpleEmbedding(t) can return.
LocalEmbeddings(t) == (CHOOSE row \in SimpleEmbeddingTable : row[1] = t)[2]

\* What the embedding service can do with a request: no reply (transport
\* error or timeout), a status other than 200, a body that does not decode,
\* or a decoded body, whose vector may be empty.
OllamaReplies ==
    {[failure |-> f, embedding |-> <<>>] : f \in {"transport", "status", "decode"}}
    \cup {[failure |-> "none", embedding |-> v] :
             v \in {<<>>, <<F32FromInt(1), F32Zero>>}}

\* Every result of e.GenerateEmbedding(t) with an empty vector of a decoded
\* body taken as a success.
GenerateEmbedding_AcceptEmpty(model, t) ==
    IF model = "simple"
    THEN {[err |-> FALSE, embedding |-> v, failure |-> "none", received |-> Len(v)] :
             v \in LocalEmbeddings(t)}
    ELSE {[err |-> r.failure # "none",
           embedding |-> IF r.failure # "none" THEN <<>> ELSE r.embedding,
           failure |-> r.failure, received |-> Len(r.embedding)] :
             r \in OllamaReplies}

\* Every result of e.GenerateEmbedding(t): the error and the vector it
\* returns, with what the service did (failure) and the length of the
\* vector it sent (received).
GenerateEmbedding(model, t) ==
    IF model = "simple"
    THEN {[err |-> FALSE, embedding |-> v, failure |-> "none", received |-> Len(v)] :
             v \in LocalEmbeddings(t)}
    ELSE {[err |-> r.failure # "none" \/ Len(r.embedding) = 0,
           embedding |-> IF r.failure # "none" THEN <<>> ELSE r.embedding,
           failure |-> r.failure, received |-> Len(r.embedding)] :
             r \in OllamaReplies}

\* All lists of at most n texts.
TextLists(n) == UNION {[1..k -> BatchTexts] : k \in 0..n}

\* The values of the argument batchSize: none, one, and more than one item.
BatchSizes == {0, 1, MaxBatch}

InitBatch ==
    /\ Model \in {"simple", "remote"}
    /\ texts \in TextLists(MaxBatch)
    /\ bpc = "call"
    /\ bi = 0
    /\ embeddings = <<>>
    /\ completed = 0
    /\ mu = 0
    /\ wpc = [w \in 1..Len(texts) |-> "unborn"]
    /\ wembedding = [w \in 1..Len(texts) |-> <<>>]
    /\ batchResult = "none"
    /\ gpc = "call"
    /\ gi = 0
    /\ gembeddings = <<>>
    /\ genResult = "none"
    /\ requests = <<>>
    /\ wcompleted = [w \in 1..Len(texts) |-> 0]
    /\ batchSize \in BatchSizes
    /\ inflight = 0
    /\ ChunkerIdle /\ EmbedIdle /\ SearchIdle /\ GenerateIdle /\ RetrieveIdle /\ BoundaryIdle

\* GenerateEmbeddingsBatch up to its loops: embeddings is made, with a nil
\* vector in every slot.
BatchBegin ==
    /\ bpc = "call"
    /\ embeddings' = [i \in 1..Len(texts) |-> <<>>]
    /\ bpc' = IF Model = "simple" THEN "spawn" ELSE "remote"
    /\ bi' = 0
    /\ completed' = 0
    /\ UNCHANGED <<Model, texts, mu, wpc, wembedding, batchResult,
                   gpc, gi, gembeddings, genResult>>
    /\ UNCHANGED <<requests, wcompleted, inflight>>
    /\ batchSize' = IF Model # "simple" /\ batchSize <= 0 THEN 1 ELSE batchSize
    /\ UNCHANGED <<chunkerVars, embedVars, searchVars, genVars, retrVars, bndVars>>

\* wg.Add(1); go func(idx int) {...}(i)
BatchSpawn ==
    /\ bpc = "spawn"
    /\ bi < Len(texts)
    /\ wpc' = [wpc EXCEPT ![bi + 1] = "embed"]
    /\ bi' = bi + 1
    /\ UNCHANGED <<Model, texts, bpc, embeddings, completed, mu, wembedding,
                   batchResult, gpc, gi, gembeddings, genResult>>
    /\ UNCHANGED <<requests, wcompleted, batchSize, inflight>>
    /\ UNCHANGED <<chunkerVars, embedVars, searchVars, genVars, retrVars, bndVars>>

\* embedding := e.generateSimpleEmbedding(texts[idx])
WorkerEmbed(w) ==
    /\ wpc[w] = "embed"
    /\ \E v \in LocalEmbeddings(texts[w]) :
          wembedding' = [wembedding EXCEPT ![w] = v]
    /\ wpc' = [wpc EXCEPT ![w] = "lock"]
    /\ UNCHANGED <<Model, texts, bpc, bi, embeddings, completed, mu,
                   batchResult, gpc, gi, gembeddings, genResult>>
    /\ UNCHANGED <<requests, wcompleted, batchSize, inflight>>
    /\ UNCHANGED <<chunkerVars, embedVars, searchVars, genVars, retrVars, bndVars>>

\* A mutex that excludes no one.
MutexFree_Always(holder) == TRUE

\* mu.Lock() returns when no goroutine holds the mutex.
MutexFree(holder) == holder = 0

\* mu.Lock()
WorkerLock(w) ==
    /\ wpc[w] = "lock"
    /\ MutexFree(mu)
    /\ mu' = w
    /\ wpc' = [wpc EXCEPT ![w] = "store"]
    /\ UNCHANGED <<Model, texts, bpc, bi, embeddings, completed, wembedding,
                   batchResult, gpc, gi, gembeddings, genResult>>
    /\ UNCHANGED <<requests, wcompleted, batchSize, inflight>>
    /\ UNCHANGED <<chunkerVars, embedVars, searchVars, genVars, retrVars, bndVars>>

\* embeddings[idx] = embedding, and the read of completed++.
WorkerStore(w) ==
    /\ wpc[w] = "store"
    /\ embeddings' = [embeddings EXCEPT ![w] = wembedding[w]]
    /\ wcompleted' = [wcompleted EXCEPT ![w] = completed]
    /\ wpc' = [wpc EXCEPT ![w] = "count"]
    /\ UNCHANGED <<Model, texts, bpc, bi, completed, mu, wembedding, batchResult,
                   gpc, gi, gembeddings, genResult>>
    /\ UNCHANGED <<requests, batchSize, inflight>>
    /\ UNCHANGED <<chunkerVars, embedVars, searchVars, genVars, retrVars, bndVars>>

\* The write of completed++; mu.Unlock(); wg.Done()
WorkerCount(w) ==
    /\ wpc[w] = "count"
    /\ completed' = wcompleted[w] + 1
    /\ mu' = 0
    /\ wpc' = [wpc EXCEPT ![w] = "done"]
    /\ UNCHANGED <<Model, texts, bpc, bi, embeddings, wembedding, batchResult,
                   gpc, gi, gembeddings, genResult>>
    /\ UNCHANGED <<requests, wcompleted, batchSize, inflight>>
    /\ UNCHANGED <<chunkerVars, embedVars, searchVars, genVars, retrVars, bndVars>>

\* wg.Wait() and the return.  The log line before the return divides
\* totalTime by time.Duration(len(texts)): an integer division, which panics
\* for an empty list.
BatchWait ==
    /\ bpc = "spawn"
    /\ bi = Len(texts)
    /\ \A w \in 1..Len(texts) : wpc[w] = "done"
    /\ IF Len(texts) = 0
       THEN bpc' = "panic" /\ batchResult' = "none"
       ELSE bpc' = "done" /\ batchResult' = [err |-> FALSE, embeddings |-> embeddings]
    /\ UNCHANGED <<Model, texts, bi, embeddings, completed, mu, wpc, wembedding,
                   gpc, gi, gembeddings, genResult>>
    /\ UNCHANGED <<requests, wcompleted, batchSize, inflight>>
    /\ UNCHANGED <<chunkerVars, embedVars, searchVars, genVars, retrVars, bndVars>>

\* One iteration of the remote loop begins: e.GenerateEmbedding(texts[i])
\* posts its request.
BatchRemoteSend ==
    /\ bpc = "remote"
    /\ bi < Len(texts)
    /\ inflight' = inflight + 1
    /\ bpc' = "waiting"
    /\ UNCHANGED <<Model, texts, bi, embeddings, completed, mu, wpc, wembedding,
                   batchResult, gpc, gi, gembeddings, genResult>>
    /\ UNCHANGED <<requests, wcompleted, batchSize>>
    /\ UNCHANGED <<chunkerVars, embedVars, searchVars, genVars, retrVars, bndVars>>

\* The remote loop going on after a call that failed.
AfterRequest_GoOn(failed) == "remote"

\* Where GenerateEmbeddingsBatch goes after a call of GenerateEmbedding:
\* out with the error, or on with the loop.
AfterRequest(failed) == IF failed THEN "done" ELSE "remote"

\* One iteration of the remote loop ends: the call of GenerateEmbedding
\* returns, and the batch returns when it failed.
BatchRemoteRequest ==
    /\ bpc = "waiting"
    /\ inflight' = inflight - 1
    /\ \E r \in GenerateEmbedding(Model, texts[bi + 1]) :
          /\ requests' = Append(requests, [by |-> "GenerateEmbeddingsBatch",
                                           item |-> bi, failure |-> r.failure,
                                           received |-> r.received])
          /\ bpc' = AfterRequest(r.err)
          /\ IF r.err
             THEN /\ batchResult' = IF AfterRequest(r.err) = "done"
                                    THEN [err |-> TRUE, embeddings |-> <<>>]
                                    ELSE batchResult
                  /\ UNCHANGED <<bi, embeddings>>
             ELSE /\ embeddings' = [embeddings EXCEPT ![bi + 1] = r.embedding]
                  /\ bi' = bi + 1
                  /\ UNCHANGED batchResult
    /\ UNCHANGED <<Model, texts, completed, mu, wpc, wembedding,
                   gpc, gi, gembeddings, genResult>>
    /\ UNCHANGED <<wcompleted, batchSize>>
    /\ UNCHANGED <<chunkerVars, embedVars, searchVars, genVars, retrVars, bndVars>>

\* The return after the remote loop.
BatchRemoteReturn ==
    /\ bpc = "remote"
    /\ bi = Len(texts)
    /\ bpc' = "done"
    /\ batchResult' = [err |-> FALSE, embeddings |-> embeddings]
    /\ UNCHANGED <<Model, texts, bi, embeddings, completed, mu, wpc, wembedding,
                   gpc, gi, gembeddings, genResult>>
    /\ UNCHANGED <<requests, wcompleted, batchSize, inflight>>
    /\ UNCHANGED <<chunkerVars, embedVars, searchVars, genVars, retrVars, bndVars>>

\* GenerateEmbeddings on the same texts, called once the batch call is over.
GenerateEmbeddingsBegin ==
    /\ gpc = "call"
    /\ bpc \in {"done", "panic"}
    /\ gembeddings' = [i \in 1..Len(texts) |-> <<>>]
    /\ gi' = 0
    /\ gpc' = "loop"
    /\ UNCHANGED <<Model, texts, bpc, bi, embeddings, completed, mu, wpc,
                   wembedding, batchResult, genResult>>
    /\ UNCHANGED <<requests, wcompleted, batchSize, inflight>>
    /\ UNCHANGED <<chunkerVars, embedVars, searchVars, genVars, retrVars, bndVars>>

\* One iteration of its loop: one call of GenerateEmbedding.
GenerateEmbeddingsStep ==
    /\ gpc = "loop"
    /\ gi < Len(texts)
    /\ \E r \in GenerateEmbedding(Model, texts[gi + 1]) :
          /\ requests' = IF Model = "simple" THEN requests
                         ELSE Append(requests, [by |-> "GenerateEmbeddings",
                                                item |-> gi, failure |-> r.failure,
                                                received |-> r.received])
          /\ IF r.err
             THEN /\ gpc' = "done"
                  /\ genResult' = [err |-> TRUE, embeddings |-> <<>>]
                  /\ UNCHANGED <<gi, gembeddings>>
             ELSE /\ gembeddings' = [gembeddings EXCEPT ![gi + 1] = r.embedding]
                  /\ gi' = gi + 1
                  /\ UNCHANGED <<gpc, genResult>>
    /\ UNCHANGED <<Model, texts, bpc, bi, embeddings, completed, mu, wpc,
                   wembedding, batchResult>>
    /\ UNCHANGED <<wcompleted, batchSize, inflight>>
    /\ UNCHANGED <<chunkerVars, embedVars, searchVars, genVars, retrVars, bndVars>>

GenerateEmbeddingsReturn ==
    /\ gpc = "loop"
    /\ gi = Len(texts)
    /\ gpc' = "done"
    /\ genResult' = [err |-> FALSE, embeddings |-> gembeddings]
    /\ UNCHANGED <<Model, texts, bpc, bi, embeddings, completed, mu, wpc,
                   wembedding, batchResult, gi, gembeddings>>
    /\ UNCHANGED <<requests, wcompleted, batchSize, inflight>>
    /\ UNCHANGED <<chunkerVars, embedVars, searchVars, genVars, retrVars, bndVars>>

NextBatch ==
    \/ BatchBegin
    \/ BatchSpawn
    \/ \E w \in 1..Len(texts) :
          WorkerEmbed(w) \/ WorkerLock(w) \/ WorkerStore(w) \/ WorkerCount(w)
    \/ BatchWait
    \/ BatchRemoteSend
    \/ BatchRemoteRequest
    \/ BatchRemoteReturn
    \/ GenerateEmbeddingsBegin
    \/ GenerateEmbeddingsStep
    \/ GenerateEmbeddingsReturn

SpecBatch == InitBatch /\ [][NextBatch]_vars

\* ------------------------------------------- the store and its searches
\* The book ids uploads generate, and the ids a request can name: those, the
\* empty one, and one no book has.
BookIDs == {"b1", "b2"}

RequestBookIDs == BookIDs \cup {"", "b"}

\* The embeddings of stored chunks, and the embeddings of queries.
StoredVectors == {<<1, 0>>, <<1, 1>>, <<2, 1>>, <<1>>}

QueryVectors == {<<1, 0>>, <<0, 1>>, <<0, 0>>, <<1>>}

\* What embedding the query can give: an error, or a vector.
QueryEmbeddings ==
    {[ok |-> FALSE, vector |-> <<>>]} \cup {[ok |-> TRUE, vector |-> v] : v \in QueryVectors}

\* The routes runServer registers: the request line and its handler.
Routes ==
    {<<"GET /health", "health">>,
     <<"POST /api/books", "UploadBook">>,
     <<"POST /api/query", "QueryBook">>}

\* The request lines the server is sent.
RequestLines ==
    {"GET /health", "POST /api/books", "POST /api/query", "GET /api/books"}

\* The handler gin dispatches a request to; NoRoute when none is registered.
HandlerOf(line) ==
    IF \E r \in Routes : r[1] = line
    THEN (CHOOSE r \in Routes : r[1] = line)[2]
    ELSE "NoRoute"

\* What the replies of the generation service are in the handlers: none
\* within the timeout, or a text.
HandlerReplies == {GenerateReply("timeout", <<>>), GenerateReply("none", <<"a", "\n">>)}

\* The title and author form fields of an upload; no handler reads them
\* back from the store.
Metadata == {[title |-> "t1", author |-> "a1"]}

\* contexts[i] = result.Chunk.Text: a chunk's text is written as its id.
ContextsOf(results) == [i \in 1..Len(results) |-> results[i].chunk.id]

\* The server takes the next request.  The behaviours of the model are
\* uploads that succeed, followed by one other request.
Serving == caller \in {"none", "POST /api/books"} /\ outcome \in {"none", "200"}

\* config.Load: TOP_K is any integer of the environment.
InitSearch ==
    /\ store = <<>>
    /\ TopK \in (0 - 1)..MaxK
    /\ caller = "none"
    /\ request = [TopK |-> 0, BookID |-> ""]
    /\ call = NoCall
    /\ retrieved = NothingRetrieved
    /\ generation = NoGeneration
    /\ outcome = "none"
    /\ body = NoBody
    /\ ChunkerIdle /\ EmbedIdle /\ BatchIdle /\ GenerateIdle /\ RetrieveIdle /\ BoundaryIdle

\* s.collection.InsertMany(ctx, docs): all the documents for insertOk, else
\* the documents before the one that failed.
InsertChunks(stored, docs, insertOk, before) ==
    IF insertOk THEN stored \o docs ELSE stored \o SubSeq(docs, 1, before)

\* UploadBook with the chunk documents stored before the error of the
\* embedder is looked at.
UploadResult_StoreFirst(stored, fileOk, docs, embedded, insertOk, before) ==
    IF ~fileOk
    THEN [status |-> "400", error |-> "Invalid request", store |-> stored]
    ELSE IF Len(docs) = 0
    THEN [status |-> "400", error |-> "Failed to chunk text", store |-> stored]
    ELSE IF ~embedded
    THEN [status |-> "500", error |-> "Failed to generate embeddings",
          store |-> InsertChunks(stored, docs, insertOk, before)]
    ELSE IF ~insertOk
    THEN [status |-> "500", error |-> "Failed to store chunks",
          store |-> InsertChunks(stored, docs, insertOk, before)]
    ELSE [status |-> "200", error |-> "",
          store |-> InsertChunks(stored, docs, insertOk, before)]

\* The returns of UploadBook in their order: the status, the error of the
\* body, and the store the handler leaves.  fileOk: the form binds and the
\* file is read and not empty; docs: one document per chunk ChunkText
\* returned; embedded: GenerateEmbeddingsBatch returned no error.
UploadResult(stored, fileOk, docs, embedded, insertOk, before) ==
    IF ~fileOk
    THEN [status |-> "400", error |-> "Invalid request", store |-> stored]
    ELSE IF Len(docs) = 0
    THEN [status |-> "400", error |-> "Failed to chunk text", store |-> stored]
    ELSE IF ~embedded
    THEN [status |-> "500", error |-> "Failed to generate embeddings", store |-> stored]
    ELSE IF ~insertOk
    THEN [status |-> "500", error |-> "Failed to store chunks",
          store |-> InsertChunks(stored, docs, insertOk, before)]
    ELSE [status |-> "200", error |-> "",
          store |-> InsertChunks(stored, docs, insertOk, before)]

\* The handler of POST /api/books.  The chunk documents get a book id no
\* other upload has, the title and author of the form, and the vectors of
\* the embedder (none when it failed).
UploadBook ==
    /\ Serving
    /\ HandlerOf("POST /api/books") = "UploadBook"
    /\ Len(store) < MaxChunks
    /\ caller' = "POST /api/books"
    /\ \E fileOk \in BOOLEAN :
       \E n \in IF fileOk THEN 0..(MaxChunks - Len(store)) ELSE {0} :
       \E embedded \in IF n > 0 THEN BOOLEAN ELSE {TRUE} :
       \E bookID \in IF n > 0 THEN BookIDs \ {store[i].book_id : i \in 1..Len(store)}
                     ELSE {"b1"},
          meta \in Metadata,
          vectors \in IF embedded THEN [1..n -> StoredVectors] ELSE {[i \in 1..n |-> <<>>]},
          insertOk \in IF n > 0 /\ embedded THEN BOOLEAN ELSE {TRUE} :
       \E before \in IF insertOk THEN {0} ELSE 0..(n - 1) :
          LET chunkDocs == [i \in 1..n |->
                              [id |-> Len(store) + i,
                               book_id |-> bookID,
                               embedding |-> vectors[i],
                               title |-> meta.title,
                               author |-> meta.author]]
              result == UploadResult(store, fileOk, chunkDocs, embedded, insertOk, before)
          IN  /\ store' = result.store
              /\ outcome' = result.status
              /\ body' = [NoBody EXCEPT !.error = result.error,
                                        !.book_id = IF result.status = "200"
                                                    THEN bookID ELSE ""]
    /\ UNCHANGED <<TopK, request, call, retrieved, generation>>
    /\ UNCHANGED <<chunkerVars, embedVars, batchVars, genVars, retrVars, bndVars>>

\* The handler of POST /api/query.
QueryBook ==
    /\ Serving
    /\ HandlerOf("POST /api/query") = "QueryBook"
    /\ caller' = "POST /api/query"
    /\ \E reqTopK \in (0 - 1)..MaxK, reqBookID \in RequestBookIDs :
       \E q \in IF reqBookID = "" THEN {[ok |-> FALSE, vector |-> <<>>]}
                ELSE QueryEmbeddings :
       \E findOk \in IF q.ok THEN BOOLEAN ELSE {TRUE} :
       \E reply \in IF q.ok /\ findOk THEN HandlerReplies
                    ELSE {GenerateReply("timeout", <<>>)} :
          /\ request' = [TopK |-> reqTopK, BookID |-> reqBookID]
          /\ IF reqBookID = ""
             THEN /\ outcome' = "400"
                  /\ body' = [NoBody EXCEPT !.error = "book_id is required"]
                  /\ call' = NoCall
                  /\ retrieved' = NothingRetrieved
                  /\ generation' = NoGeneration
             ELSE \E topK \in {IF reqTopK <= 0 THEN TopK ELSE reqTopK} :
                  \E r \in {Retrieve(store, q.ok, q.vector, topK, reqBookID, findOk)} :
                  \E g \in {GenerateResponse("q1", ContextsOf(r.results), reply)} :
                      /\ call' = [made |-> TRUE, topK |-> topK, bookID |-> reqBookID,
                                  queryEmbedding |-> q.vector]
                      /\ retrieved' = r
                      /\ IF r.status = "panic"
                         THEN /\ outcome' = "panic"
                              /\ body' = NoBody
                              /\ generation' = NoGeneration
                         ELSE IF r.status # "ok"
                         THEN /\ outcome' = "500"
                              /\ body' = [NoBody EXCEPT !.error = "Failed to retrieve chunks"]
                              /\ generation' = NoGeneration
                         ELSE IF Len(r.results) = 0
                         THEN /\ outcome' = "404"
                              /\ body' = [NoBody EXCEPT !.error = "No relevant chunks found"]
                              /\ generation' = NoGeneration
                         ELSE /\ generation' = [invoked |-> TRUE, err |-> g.err, text |-> g.text]
                              /\ outcome' = QueryResponse(g).status
                              /\ body' = [NoBody EXCEPT
                                             !.error = QueryResponse(g).error,
                                             !.answer = QueryResponse(g).answer,
                                             !.sources = IF g.err = "nil"
                                                         THEN ContextsOf(r.results)
                                                         ELSE <<>>]
    /\ UNCHANGED <<store, TopK>>
    /\ UNCHANGED <<chunkerVars, embedVars, batchVars, genVars, retrVars, bndVars>>

\* A request with another handler, or with none: gin answers 404 when no
\* route is registered for the request line.
ServeOther ==
    /\ Serving
    /\ \E line \in RequestLines :
          /\ HandlerOf(line) \in {"health", "NoRoute"}
          /\ caller' = line
          /\ outcome' = IF HandlerOf(line) = "health" THEN "200" ELSE "404"
          /\ body' = IF HandlerOf(line) = "health" THEN NoBody
                     ELSE [NoBody EXCEPT !.error = "404 page not found"]
    /\ UNCHANGED <<store, TopK, request, call, retrieved, generation>>
    /\ UNCHANGED <<chunkerVars, embedVars, batchVars, genVars, retrVars, bndVars>>

\* One question of Evaluator.Evaluate.
Evaluate ==
    /\ Serving
    /\ caller' = "Evaluate"
    /\ \E bookID \in RequestBookIDs, q \in QueryEmbeddings :
       \E findOk \in IF q.ok THEN BOOLEAN ELSE {TRUE} :
       \E reply \in IF q.ok /\ findOk THEN HandlerReplies
                    ELSE {GenerateReply("timeout", <<>>)} :
          \E r \in {Retrieve(store, q.ok, q.vector, TopK, bookID, findOk)} :
          \E g \in {GenerateResponse("q1", ContextsOf(r.results), reply)} :
              /\ request' = [TopK |-> TopK, BookID |-> bookID]
              /\ call' = [made |-> TRUE, topK |-> TopK, bookID |-> bookID,
                          queryEmbedding |-> q.vector]
              /\ retrieved' = r
              /\ generation' = IF r.status = "ok"
                               THEN [invoked |-> TRUE, err |-> g.err, text |-> g.text]
                               ELSE NoGeneration
              /\ outcome' = IF r.status = "panic" THEN "panic"
                            ELSE IF r.status # "ok" THEN "failed"
                            ELSE IF g.err = "nil" THEN "answered"
                            ELSE "failed"
              /\ body' = IF r.status = "ok" /\ g.err = "nil"
                         THEN [NoBody EXCEPT !.answer = g.text]
                         ELSE NoBody
    /\ UNCHANGED <<store, TopK>>
    /\ UNCHANGED <<chunkerVars, embedVars, batchVars, genVars, retrVars, bndVars>>

NextSearch == UploadBook \/ QueryBook \/ ServeOther \/ Evaluate

SpecSearch == InitSearch /\ [][NextSearch]_vars

\* ------------------------------------------------- findSentenceBoundary calls
\* The characters of the texts findSentenceBoundary is called with.
BoundaryRunes == {"a", ".", " ", "\n", "U+3002", "U+FF1F"}

\* All sequences of at most n characters.
RECURSIVE RuneTexts(_)
RuneTexts(n) ==
    IF n = 0 THEN {<<>>}
    ELSE LET shorter == RuneTexts(n - 1)
         IN  shorter \cup {Append(t, r) : t \in {u \in shorter : Len(u) = n - 1},
                                          r \in BoundaryRunes}

\* A call findSentenceBoundary(text, start, end) on a UTF-8 text, with
\* 0 <= start <= end <= len(text).
InitBoundary ==
    /\ bndText \in {UTF8(runes) : runes \in RuneTexts(MaxRunes)}
    /\ bndEnd \in 0..Len(bndText)
    /\ bndStart \in 0..bndEnd
    /\ bndReturn = 0
    /\ bndPc = "call"
    /\ ChunkerIdle /\ EmbedIdle /\ BatchIdle /\ SearchIdle /\ GenerateIdle /\ RetrieveIdle

BoundaryCall ==
    /\ bndPc = "call"
    /\ bndReturn' = findSentenceBoundary(bndText, bndStart, bndEnd)
    /\ bndPc' = "returned"
    /\ UNCHANGED <<bndText, bndStart, bndEnd>>
    /\ UNCHANGED <<chunkerVars, embedVars, batchVars, searchVars, genVars, retrVars>>

NextBoundary == BoundaryCall

SpecBoundary == InitBoundary /\ [][NextBoundary]_vars

\* --------------------------------------------------------------- generator calls
\* The longest response text of the generation service.
MaxReply == 2

\* The seconds between two readings of the clock.
TickSeconds == 10

Questions == {"q1", "q2"}

Passages == {"c1", "c2"}

\* The texts of the chunks a search returned: at most k of them.
ContextLists(k) == UNION {[1..n -> Passages] : n \in 0..k}

\* A complete prompt that buildPrompt did not make.
RawPrompt ==
    [instructions |-> "", passages |-> <<>>, question |-> "q1", closing |-> ""]

\* The prompts GenerateWithCustomPrompt is called with.
Prompts ==
    {buildPrompt(q, c) : q \in Questions, c \in ContextLists(MaxK)} \cup {RawPrompt}

\* The replies of the generation service that arrive before the timeout.
GenerateReplies ==
    {GenerateReply(f, <<>>) : f \in {"transport", "status", "decode"}}
    \cup {GenerateReply("none", t) : t \in Texts(MaxReply)}

InitGenerate ==
    /\ \/ /\ genMethod = "GenerateResponse"
          /\ query \in Questions
          /\ contexts \in ContextLists(MaxK)
          /\ prompt = buildPrompt("", <<>>)
       \/ /\ genMethod = "GenerateWithCustomPrompt"
          /\ query = ""
          /\ contexts = <<>>
          /\ prompt \in Prompts
       \/ /\ genMethod = "GenerateEmbedding"
          /\ query = ""
          /\ contexts = <<>>
          /\ prompt = buildPrompt("", <<>>)
    /\ genPc = "call"
    /\ elapsed = 0
    /\ resp = NoReply
    /\ genReturn = NoReturn
    /\ ChunkerIdle /\ EmbedIdle /\ BatchIdle /\ SearchIdle /\ RetrieveIdle /\ BoundaryIdle

\* Client.Post sends the request; the client's timer starts.
GeneratePost ==
    /\ genPc = "call"
    /\ genPc' = "waiting"
    /\ elapsed' = 0
    /\ UNCHANGED <<genMethod, query, contexts, prompt, resp, genReturn>>
    /\ UNCHANGED <<chunkerVars, embedVars, batchVars, searchVars, retrVars, bndVars>>

\* The clock advances without a reply, up to the client's deadline.
Tick ==
    /\ genPc = "waiting"
    /\ elapsed < ClientTimeout(genMethod)
    /\ elapsed' = IF elapsed + TickSeconds > ClientTimeout(genMethod)
                  THEN ClientTimeout(genMethod)
                  ELSE elapsed + TickSeconds
    /\ UNCHANGED <<genMethod, query, contexts, prompt, genPc, resp, genReturn>>
    /\ UNCHANGED <<chunkerVars, embedVars, batchVars, searchVars, retrVars, bndVars>>

\* The service replies, or the transport fails, before the timeout: the
\* method runs to its return.
ServiceReplies ==
    /\ genPc = "waiting"
    /\ elapsed < ClientTimeout(genMethod)
    /\ IF genMethod = "GenerateEmbedding"
       THEN \E r \in GenerateEmbedding("remote", <<>>) :
               /\ resp' = GenerateReply(r.failure, <<>>)
               /\ genReturn' = [sent |-> prompt,
                                 err |-> IF r.err THEN "embedding failed" ELSE "nil",
                                 text |-> <<>>]
       ELSE \E reply \in GenerateReplies :
               /\ resp' = reply
               /\ genReturn' = IF genMethod = "GenerateResponse"
                               THEN GenerateResponse(query, contexts, reply)
                               ELSE GenerateWithCustomPrompt(prompt, reply)
    /\ genPc' = "returned"
    /\ UNCHANGED <<genMethod, query, contexts, prompt, elapsed>>
    /\ UNCHANGED <<chunkerVars, embedVars, batchVars, searchVars, retrVars, bndVars>>

\* Client.Timeout has elapsed: Client.Post returns an error, and the method
\* returns it.
ClientTimesOut ==
    /\ genPc = "waiting"
    /\ elapsed >= ClientTimeout(genMethod)
    /\ resp' = GenerateReply("timeout", <<>>)
    /\ genReturn' = IF genMethod = "GenerateEmbedding"
                    THEN [sent |-> prompt, err |-> "embedding failed", text |-> <<>>]
                    ELSE IF genMethod = "GenerateResponse"
                    THEN GenerateResponse(query, contexts, GenerateReply("timeout", <<>>))
                    ELSE GenerateWithCustomPrompt(prompt, GenerateReply("timeout", <<>>))
    /\ genPc' = "returned"
    /\ UNCHANGED <<genMethod, query, contexts, prompt, elapsed>>
    /\ UNCHANGED <<chunkerVars, embedVars, batchVars, searchVars, retrVars, bndVars>>

NextGenerate == GeneratePost \/ Tick \/ ServiceReplies \/ ClientTimesOut

\* Time passes while a request waits, and the client's timer fires.
SpecGenerate ==
    InitGenerate /\ [][NextGenerate]_vars
                 /\ WF_<<genPc, elapsed>>(Tick \/ ClientTimesOut)

\* --------------------------------------------------------------- retriever calls
\* The calls of Retrieve in one behaviour.
MaxCalls == 2

\* The stores Retrieve searches.
RetrieveStores ==
    {<<>>,
     <<[id |-> 1, book_id |-> "b1", embedding |-> <<1, 0>>]>>,
     <<[id |-> 1, book_id |-> "b1", embedding |-> <<1, 1>>],
       [id |-> 2, book_id |-> "b2", embedding |-> <<1, 0>>]>>}

\* if err != nil { return } after the embedding, left out.
AfterEmbed_SearchAnyway(ok) == "searching"

\* Where Retrieve goes after r.embedder.GenerateEmbedding(query).
AfterEmbed(ok) == IF ok THEN "searching" ELSE "returned"

InitRetrieve ==
    /\ retrPc = "ready"
    /\ retrCalls = 0
    /\ retrArgs = [query |-> "", topK |-> 0, bookID |-> ""]
    /\ qEmbedding = <<>>
    /\ steps = <<>>
    /\ retrReturns = <<>>
    /\ store \in RetrieveStores
    /\ TopK = 0
    /\ caller = "idle"
    /\ request = [TopK |-> 0, BookID |-> ""]
    /\ call = NoCall
    /\ retrieved = NothingRetrieved
    /\ generation = NoGeneration
    /\ outcome = "none"
    /\ body = NoBody
    /\ ChunkerIdle /\ EmbedIdle /\ BatchIdle /\ GenerateIdle /\ BoundaryIdle

\* A caller calls Retrieve(ctx, query, topK, bookID).
RetrieveCall ==
    /\ retrPc \in {"ready", "returned"}
    /\ retrCalls < MaxCalls
    /\ \E q \in Questions, k \in (0 - 1)..MaxK, b \in {"", "b1"} :
          retrArgs' = [query |-> q, topK |-> k, bookID |-> b]
    /\ retrCalls' = retrCalls + 1
    /\ retrPc' = "embedding"
    /\ qEmbedding' = <<>>
    /\ UNCHANGED <<steps, retrReturns>>
    /\ UNCHANGED <<chunkerVars, embedVars, batchVars, searchVars, genVars, bndVars>>

\* queryEmbedding, err := r.embedder.GenerateEmbedding(query), and the
\* return for an error.
RetrieveEmbed ==
    /\ retrPc = "embedding"
    /\ \E e \in QueryEmbeddings :
          /\ steps' = Append(steps, [call |-> retrCalls, step |-> "embed",
                                     query |-> retrArgs.query, ok |-> e.ok])
          /\ qEmbedding' = e.vector
          /\ retrPc' = AfterEmbed(e.ok)
          /\ retrReturns' =
                 IF e.ok THEN retrReturns
                 ELSE Append(retrReturns,
                          [err |-> "failed to generate query embedding", results |-> <<>>])
    /\ UNCHANGED <<retrCalls, retrArgs>>
    /\ UNCHANGED <<chunkerVars, embedVars, batchVars, searchVars, genVars, bndVars>>

\* results, err := r.store.SimpleVectorSearch(ctx, queryEmbedding, topK,
\* bookID), and the return.
RetrieveSearch ==
    /\ retrPc = "searching"
    /\ \E findOk \in BOOLEAN :
          LET found == SimpleVectorSearch(store, qEmbedding, retrArgs.topK,
                                          retrArgs.bookID, findOk)
          IN  /\ steps' = Append(steps, [call |-> retrCalls, step |-> "search",
                                         query |-> retrArgs.query,
                                         ok |-> found.status # "search error"])
              /\ IF found.status = "panic"
                 THEN /\ retrPc' = "panic"
                      /\ UNCHANGED retrReturns
                 ELSE /\ retrPc' = "returned"
                      /\ retrReturns' =
                             IF found.status = "search error"
                             THEN Append(retrReturns,
                                      [err |-> "vector search failed", results |-> <<>>])
                             ELSE Append(retrReturns,
                                      [err |-> "nil", results |-> found.results])
    /\ UNCHANGED <<retrCalls, retrArgs, qEmbedding>>
    /\ UNCHANGED <<chunkerVars, embedVars, batchVars, searchVars, genVars, bndVars>>

NextRetrieve == RetrieveCall \/ RetrieveEmbed \/ RetrieveSearch

SpecRetrieve == InitRetrieve /\ [][NextRetrieve]_vars

\* --------------------------------------------------------------- claims
\* The cleaned form of a raw text, stated independently of cleanText: its
\* whitespace separated words joined by single spaces.
RECURSIVE WordsOf(_, _, _)
WordsOf(s, cur, acc) ==
    IF s = <<>> THEN (IF cur = <<>> THEN acc ELSE Append(acc, cur))
    ELSE IF Head(s) \in {" ", "\n", "\t", "\r"}
         THEN WordsOf(Tail(s), <<>>, IF cur = <<>> THEN acc ELSE Append(acc, cur))
    ELSE WordsOf(Tail(s), Append(cur, Head(s)), acc)

RECURSIVE SpaceJoined(_)
SpaceJoined(ws) ==
    IF ws = <<>> THEN <<>>
    ELSE IF Len(ws) = 1 THEN ws[1]
    ELSE ws[1] \o <<" ">> \o SpaceJoined(Tail(ws))

CleanedForm(raw) == SpaceJoined(WordsOf(raw, <<>>, <<>>))

Returned == cpc = "done"

\* C1: a text whose cleaned form is non-empty and no longer than ChunkSize
\* comes back as exactly one chunk, the cleaned form (words joined by single
\* spaces, no blank lines, no runs of whitespace).
C1_SingleChunk ==
    (cpc # "call" /\ CleanedForm(input) # <<>> /\ Len(CleanedForm(input)) <= ChunkSize)
        => (Returned /\ chunks = <<CleanedForm(input)>>)

\* A raw text with a blank line and a run of spaces returned as one chunk.
C1_Witness ==
    /\ Returned
    /\ stop = "single"
    /\ input # CleanedForm(input)
    /\ \E i \in 1..Len(input) : input[i] = "\n"
    /\ Len(chunks) = 1
    /\ \E i \in 1..Len(chunks[1]) : chunks[1][i] = " "

\* C2: for every size and overlap, a text that is empty after cleaning (the
\* empty string, only whitespace, only blank lines) gives no chunks and
\* ChunkText returns normally.
C2_EmptyText ==
    (cpc # "call" /\ CleanedForm(input) = <<>>)
        => (Returned /\ chunks = <<>>)

\* A text of whitespace only, chunked with a size that is not positive.
C2_Witness ==
    /\ Returned
    /\ input # <<>>
    /\ CleanedForm(input) = <<>>
    /\ ChunkSize <= 0
    /\ chunks = <<>>

IsSubstring(c, t) ==
    \E a \in 0..Len(t) : \E b \in a..Len(t) : c = Slice(t, a, b)

\* C3: every chunk emitted is non-empty, has no whitespace at either end and
\* is a contiguous substring of the cleaned text.
C3_ChunksAreTrimmedSubstrings ==
    \A i \in 1..Len(chunks) :
        /\ chunks[i] # <<>>
        /\ ~IsSpace(chunks[i][1])
        /\ ~IsSpace(chunks[i][Len(chunks[i])])
        /\ IsSubstring(chunks[i], CleanedForm(input))

\* Two chunks from the loop, one from a window with a space at its start and
\* one from a window with a space at its end.
C3_Witness ==
    /\ Returned
    /\ Len(chunks) >= 2
    /\ \E i \in 1..Len(windows) :
          windows[i].emitted /\ IsSpace(At(text, windows[i].start))
    /\ \E i \in 1..Len(windows) :
          windows[i].emitted /\ IsSpace(At(text, windows[i].end - 1))

\* The windows that gave a chunk, in order, and where a window's chunk begins
\* in the cleaned text: its start, moved past the whitespace trimmed there.
EmittedWindows == SelectSeq(windows, LAMBDA w : w.emitted)

ChunkBegin(w) ==
    LET s == Slice(text, w.start, w.end)
    IN  w.start + (Len(s) - Len(TrimLeft(s)))

\* C4 as stated: of two chunks emitted one after the other, the later begins
\* at a strictly greater position of the cleaned text than the earlier.
C4_ChunkBeginsStrictlyIncrease ==
    \A i \in 1..(Len(EmittedWindows) - 1) :
        ChunkBegin(EmittedWindows[i + 1]) > ChunkBegin(EmittedWindows[i])

\* C4 as amended: the window starts are strictly increasing from one
\* iteration to the next, and the positions at which the emitted chunks
\* begin never decrease.
C4_WindowStartsStrictlyIncrease ==
    /\ \A i \in 1..(Len(windows) - 1) : windows[i + 1].start > windows[i].start
    /\ (cpc = "loop" /\ windows # <<>>) => start > windows[Len(windows)].start
    /\ \A i \in 1..(Len(EmittedWindows) - 1) :
          ChunkBegin(EmittedWindows[i + 1]) >= ChunkBegin(EmittedWindows[i])

\* Two chunks emitted one after the other from windows with different starts
\* that begin at the same position of the cleaned text.
C4_Witness ==
    /\ Returned
    /\ \E i \in 1..(Len(EmittedWindows) - 1) :
          /\ EmittedWindows[i + 1].start > EmittedWindows[i].start
          /\ ChunkBegin(EmittedWindows[i + 1]) = ChunkBegin(EmittedWindows[i])

\* The sizes and overlaps C5 is about.
C5_InScope == ChunkSize >= 1 /\ ChunkOverlap >= 0

\* A call ended by the iteration bound: the iteration after the last allowed
\* one returned, and every allowed iteration ran a window.
C5_BoundReached ==
    /\ cpc = "done"
    /\ iteration = maxIterations + 1
    /\ Len(windows) = maxIterations

\* C5: for every text, size >= 1 and overlap >= 0 (overlap >= size
\* included) ChunkText terminates; every iteration that runs a window moves
\* the window start strictly forward; no more than
\* len(cleaned) / max(size - overlap, 1) + 1000 iterations are run; and the
\* iteration that exceeds the bound ends the loop and returns the chunks made
\* so far.  (The last conjunct: a call inside its loop always has an
\* iteration to run, so the steps the fairness condition asks for are steps
\* of ChunkText.)
C5_Terminates ==
    /\ C5_InScope ~> (cpc = "done")
    /\ [][(C5_InScope /\ windows' # windows) => start' > start]_vars
    /\ [](C5_InScope =>
            /\ Len(windows) <= maxIterations
            /\ cpc = "loop" => (/\ iteration <= maxIterations
                                /\ iteration = Len(windows)
                                /\ maxIterations =
                                     (Len(text) \div (IF ChunkSize - ChunkOverlap >= 1
                                                      THEN ChunkSize - ChunkOverlap
                                                      ELSE 1)) + 1000))
    /\ [][(C5_InScope /\ cpc = "loop" /\ iteration' > maxIterations)
            => (cpc' = "done" /\ chunks' = chunks /\ stop' = "maxIterations")]_vars
    /\ [](C5_InScope /\ stop = "maxIterations" => C5_BoundReached)
    /\ [](cpc = "loop" => start < Len(text))

\* A call with overlap >= size that took several iterations, each moved
\* forward by the forced step, and returned at the end of the text.
C5_Witness ==
    /\ cpc = "done"
    /\ C5_InScope
    /\ ChunkOverlap >= ChunkSize
    /\ Len(windows) >= 3
    /\ \A i \in 1..(Len(windows) - 1) : windows[i + 1].start = windows[i].start + 1
    /\ stop \in {"end of text", "start >= end"}

\* The elements of a sequence.
Range(s) == {s[i] : i \in 1..Len(s)}

\* Retrieve was called and returned results (no embedding failure, no store
\* failure, no panic).
SearchReturned == call.made /\ retrieved.status = "ok"

\* C6: a search called with a non-empty document identifier takes as its
\* candidates exactly the stored chunks whose book_id equals that identifier,
\* and so returns only such chunks; with the empty identifier every stored
\* chunk is a candidate.
C6_SearchFiltersByBookID ==
    SearchReturned =>
        /\ call.bookID # "" =>
              /\ \A r \in Range(retrieved.results) : r.chunk.book_id = call.bookID
              /\ Range(retrieved.fetched) = {c \in Range(store) : c.book_id = call.bookID}
        /\ call.bookID = "" => retrieved.fetched = store

\* A search for one book returned a chunk while the store held a chunk of
\* the other book that the query could have been scored against.
C6_Witness ==
    /\ SearchReturned
    /\ call.bookID # ""
    /\ retrieved.results # <<>>
    /\ \E c \in Range(store) :
          /\ c.book_id # call.bookID
          /\ Len(c.embedding) = Len(call.queryEmbedding)

\* C7: for k >= 1 the search returns min(k, number of scored candidates)
\* results, all of them distinct scored candidates, in order of non-increasing
\* score, and no scored candidate left out has a score greater than that of a
\* returned one.
C7_TopKByScore ==
    (SearchReturned /\ call.topK >= 1) =>
        LET results == retrieved.results
            scored  == retrieved.scored
        IN  /\ Len(results) = IF call.topK < Len(scored) THEN call.topK ELSE Len(scored)
            /\ \A i \in 1..Len(results) : results[i] \in Range(scored)
            /\ \A i, j \in 1..Len(results) :
                  i # j => results[i].chunk.id # results[j].chunk.id
            /\ \A i \in 1..(Len(results) - 1) :
                  ~F32Greater(results[i + 1].score, results[i].score)
            /\ \A s \in Range(scored) \ Range(results) :
                  \A r \in Range(results) : ~F32Greater(s.score, r.score)

\* Three candidates of pairwise different scores, scored in an order that is
\* not the descending one, and the best two returned.
C7_Witness ==
    /\ SearchReturned
    /\ call.topK = 2
    /\ Len(retrieved.scored) = 3
    /\ \A i, j \in 1..3 :
          i # j => retrieved.scored[i].score # retrieved.scored[j].score
    /\ F32Greater(retrieved.scored[3].score, retrieved.scored[1].score)
    /\ Len(retrieved.results) = 2

\* GenerateEmbeddingsBatch and GenerateEmbeddings both returned vectors for
\* the same N >= 1 texts, in local mode.
BothReturned ==
    /\ Model = "simple"
    /\ Len(texts) >= 1
    /\ bpc = "done"
    /\ gpc = "done"

\* C8: in local mode, for N >= 1 texts and every interleaving of the
\* workers, the batch returns N vectors and the vector at index i equals the
\* vector the single-text embedding of texts[i] returns, as in a sequential
\* call of GenerateEmbeddings on the same texts.
C8_BatchEqualsSingle ==
    BothReturned =>
        /\ ~batchResult.err
        /\ Len(batchResult.embeddings) = Len(texts)
        /\ batchResult.embeddings = genResult.embeddings

\* C9: two calls of generateSimpleEmbedding on the same text return the same
\* vector, whatever order the map wordCounts is iterated in.
C9_Deterministic ==
    embedPc = "done" => returned[1] = returned[2]

\* C10: a call of Retrieve with a non-positive k that reaches the search
\* does not fail, and does not return an empty result when there are scored
\* candidates.
C10_NonPositiveKFallsBack ==
    (call.made /\ call.topK <= 0
       /\ retrieved.status \notin {"embedding error", "search error"}) =>
        /\ retrieved.status = "ok"
        /\ retrieved.scored # <<>> => retrieved.results # <<>>

\* ---------------------------------------------------------------------
\* C20  In every iteration of ChunkText whose raw window end start + size
\* lies before the end of the text, the window ends at the boundary that
\* findSentenceBoundary returns exactly when that boundary is strictly
\* greater than start + overlap; otherwise it ends at the raw end
\* start + size, even when a lower tier has a boundary beyond
\* start + overlap.
RawEndInside(w) == w.start + ChunkSize < Len(text)

BoundaryOf(w) == findSentenceBoundary(text, w.start, w.start + ChunkSize)

C20_BoundaryUsedIffBeyondOverlap ==
    \A n \in 1..Len(windows) :
        LET w == windows[n]
        IN  RawEndInside(w) =>
                /\ BoundaryOf(w) > w.start + ChunkOverlap => w.end = BoundaryOf(w)
                /\ BoundaryOf(w) <= w.start + ChunkOverlap => w.end = w.start + ChunkSize

\* A returned call with a window whose sentence boundary was too close, so
\* that the raw end was kept although the last space of the window lies
\* beyond start + overlap.
C20_Witness ==
    /\ Returned
    /\ \E n \in 1..Len(windows) :
           LET w == windows[n]
           IN  /\ RawEndInside(w)
               /\ BoundaryOf(w) <= w.start + ChunkOverlap
               /\ BoundaryOf(w) < w.start + ChunkSize
               /\ ScanSpace(text, w.start + ChunkSize - 1, w.start) > w.start + ChunkOverlap
               /\ w.end = w.start + ChunkSize

\* ---------------------------------------------------------------------
\* C12  A stored chunk whose vector length differs from the query vector's
\* is skipped by SimpleVectorSearch: it is in the results with no score at
\* all, and the search over the store gives what the search over the store
\* without such chunks gives: the same status, the same scored candidates
\* and the same results in the same order.
SameLength(stored, queryEmbedding) ==
    SelectSeq(stored, LAMBDA chunk : Len(chunk.embedding) = Len(queryEmbedding))

SearchRan == call.made /\ retrieved.status \in {"ok", "panic"}

C12_MismatchedChunksSkipped ==
    SearchRan =>
        LET without == SimpleVectorSearch(SameLength(store, call.queryEmbedding),
                           call.queryEmbedding, call.topK, call.bookID, TRUE)
        IN  /\ \A n \in 1..Len(retrieved.scored) :
                   Len(retrieved.scored[n].chunk.embedding) = Len(call.queryEmbedding)
            /\ \A n \in 1..Len(retrieved.results) :
                   Len(retrieved.results[n].chunk.embedding) = Len(call.queryEmbedding)
            /\ retrieved.status = without.status
            /\ retrieved.scored = without.scored
            /\ retrieved.results = without.results

\* A search that fetched a chunk of another length between two chunks of
\* the query's length, and returned those two with different scores.
C12_Witness ==
    /\ SearchReturned
    /\ Len(retrieved.fetched) = 3
    /\ Len(retrieved.fetched[2].embedding) # Len(call.queryEmbedding)
    /\ Len(retrieved.results) = 2
    /\ retrieved.results[1].score # retrieved.results[2].score
    /\ retrieved.results[1].chunk = retrieved.fetched[3]

\* ---------------------------------------------------------------------
\* C13  In remote mode the requests of a batch are sent one item after the
\* other, and when the request for an item fails (no reply within the
\* timeout or a transport error, a status other than 200, a body that does
\* not decode, an empty vector), GenerateEmbeddingsBatch, and
\* GenerateEmbeddings likewise, has returned an error with no vector at
\* all, and has sent no request for a later item.
RequestsBy(fn) == SelectSeq(requests, LAMBDA r : r.by = fn)

RequestFailed(r) == r.failure # "none" \/ r.received = 0

FailsAsAWhole(sent, pc, result) ==
    /\ \A k \in 1..Len(sent) : sent[k].item = k - 1
    /\ \A k \in 1..Len(sent) :
           RequestFailed(sent[k]) =>
               /\ k = Len(sent)
               /\ pc = "done"
               /\ result.err
               /\ result.embeddings = <<>>

C13_RemoteBatchFailsAsAWhole ==
    Model # "simple" =>
        /\ FailsAsAWhole(RequestsBy("GenerateEmbeddingsBatch"), bpc, batchResult)
        /\ FailsAsAWhole(RequestsBy("GenerateEmbeddings"), gpc, genResult)

\* Two texts in remote mode: the batch call failed on the first text and
\* sent nothing for the second; GenerateEmbeddings got a vector for the
\* first text, failed on the second and returned no vector.
C13_Witness ==
    /\ Model # "simple"
    /\ Len(texts) = 2
    /\ bpc = "done" /\ batchResult.err
    /\ Len(RequestsBy("GenerateEmbeddingsBatch")) = 1
    /\ gpc = "done" /\ genResult.err /\ genResult.embeddings = <<>>
    /\ Len(RequestsBy("GenerateEmbeddings")) = 2
    /\ ~RequestFailed(RequestsBy("GenerateEmbeddings")[1])

\* ---------------------------------------------------------------------
\* C15  GenerateResponse returns an error or a usable answer: whatever the
\* service replies, a return without error carries a text that is not
\* empty, the service's response with the surrounding whitespace removed.
GenerateResponseReturned == genMethod = "GenerateResponse" /\ genPc = "returned"

C15_SuccessHasAnswer ==
    GenerateResponseReturned /\ genReturn.err = "nil" =>
        /\ genReturn.text = TrimSpace(resp.response)
        /\ genReturn.text # <<>>

\* ---------------------------------------------------------------------
\* C16  A generation call whose service never replies returns: when the 120
\* seconds of the generator's client have elapsed (the embedder's client
\* waits 60), GenerateResponse returns an error and no text, and QueryBook
\* answers it as it answers every other failure of the generation call,
\* with a 500 that carries no answer.
TimedOut == genPc = "returned" /\ resp.failure = "timeout"

C16_TimeoutIsAFailure ==
    /\ [](genPc = "waiting" => <>(genPc = "returned"))
    /\ [](genPc = "waiting" /\ genMethod # "GenerateEmbedding" => elapsed <= generatorTimeout)
    /\ [](genPc = "waiting" /\ genMethod = "GenerateEmbedding" => elapsed <= embedderTimeout)
    /\ [](generatorTimeout > embedderTimeout)
    /\ [](TimedOut /\ genMethod = "GenerateEmbedding" => elapsed = embedderTimeout)
    /\ [](TimedOut /\ genMethod # "GenerateEmbedding" =>
              /\ elapsed = generatorTimeout
              /\ genReturn.err # "nil"
              /\ genReturn.text = <<>>)
    /\ [](TimedOut /\ genMethod = "GenerateResponse" =>
              /\ QueryResponse(genReturn).status = "500"
              /\ QueryResponse(genReturn).answer = <<>>
              /\ \A f \in {"transport", "status", "decode"} :
                     QueryResponse(genReturn) =
                         QueryResponse(GenerateResponse(query, contexts, GenerateReply(f, <<>>))))

\* A call of GenerateResponse that got no reply and returned at 120 seconds.
C16_Witness ==
    /\ GenerateResponseReturned
    /\ resp.failure = "timeout"
    /\ elapsed = generatorTimeout
    /\ genReturn.err = "failed to call Ollama API"

\* ---------------------------------------------------------------------
\* C18  GenerateWithCustomPrompt(p) sends p as it is, and for every reply of
\* the service it returns what GenerateResponse returns when the prompt it
\* built is p: an error for both or for neither, and the same text.
C18_CustomPromptSameOutcome ==
    genMethod = "GenerateWithCustomPrompt" /\ genPc = "returned" =>
        /\ genReturn.sent = prompt
        /\ \A q \in Questions, c \in ContextLists(MaxK) :
               buildPrompt(q, c) = prompt =>
                   LET built == GenerateResponse(q, c, resp)
                   IN  /\ built.sent = genReturn.sent
                       /\ (built.err = "nil") = (genReturn.err = "nil")
                       /\ built.text = genReturn.text

\* ---------------------------------------------------------------------
\* C14  Every call of Retrieve computes the query embedding once, first,
\* and queries the store at most once, after an embedding that succeeded.
\* When the embedding fails the call returns the embedding error without a
\* store query; when the store search fails it returns the search error;
\* in both cases it returns no results.  A later call with the same query
\* computes the embedding again.
StepsOf(n) == SelectSeq(steps, LAMBDA s : s.call = n)

RetrieveReturned(n) == n < retrCalls \/ (n = retrCalls /\ retrPc = "returned")

C14_EmbedThenSearch ==
    \A n \in 1..retrCalls :
        LET made == StepsOf(n)
        IN  /\ Len(made) <= 2
            /\ Len(made) >= 1 => made[1].step = "embed"
            /\ Len(made) = 2 => made[1].ok /\ made[2].step = "search"
            /\ RetrieveReturned(n) =>
                   /\ Len(made) >= 1
                   /\ ~made[1].ok =>
                          /\ Len(made) = 1
                          /\ retrReturns[n].err = "failed to generate query embedding"
                          /\ retrReturns[n].results = <<>>
                   /\ made[1].ok =>
                          /\ Len(made) = 2
                          /\ ~made[2].ok =>
                                 /\ retrReturns[n].err = "vector search failed"
                                 /\ retrReturns[n].results = <<>>
                          /\ made[2].ok => retrReturns[n].err = "nil"

\* Two calls with the same query: the first embedded the query and got
\* results from the store, the second embedded it again, failed at that and
\* returned without a store query.
C14_Witness ==
    /\ retrCalls = 2
    /\ retrPc = "returned"
    /\ Len(steps) = 3
    /\ retrReturns[1].err = "nil"
    /\ Len(retrReturns[1].results) >= 1
    /\ retrReturns[2].err = "failed to generate query embedding"
    /\ steps[3] = [call |-> 2, step |-> "embed", query |-> steps[1].query, ok |-> FALSE]

\* ---------------------------------------------------------------------
\* C11  A search that scored no candidate (none fetched for the book, or
\* none of the query's length) returns an empty result and no error, and
\* QueryBook then answers 404 without a call of the generation service.
C11_NoCandidatesIsNotFound ==
    SearchRan /\ retrieved.scored = <<>> =>
        /\ retrieved.status = "ok"
        /\ retrieved.results = <<>>
        /\ caller = "POST /api/query" =>
               /\ outcome = "404"
               /\ ~generation.invoked

\* ---------------------------------------------------------------------
\* C17  An upload whose embedding fails answers 500 and leaves the store as
\* it was: no chunk of the document is stored.  A query whose embedding or
\* generation call fails answers 500 with no answer and no sources.
C17_UploadLeavesStore ==
    caller' = "POST /api/books" /\ body'.error = "Failed to generate embeddings" =>
        /\ outcome' = "500"
        /\ store' = store

C17_QueryFails ==
    caller = "POST /api/query" /\ call.made
        /\ (retrieved.status = "embedding error"
              \/ (generation.invoked /\ generation.err # "nil")) =>
        /\ outcome = "500"
        /\ body.answer = <<>>
        /\ body.sources = <<>>

C17_AllOrNothing == [][C17_UploadLeavesStore]_vars /\ []C17_QueryFails

\* An upload into a store that holds a book failed at the embedding and left
\* the store as it was.
C17_Witness ==
    /\ caller = "POST /api/books"
    /\ outcome = "500"
    /\ body.error = "Failed to generate embeddings"
    /\ Len(store) >= 1

\* ---------------------------------------------------------------------
\* C19  A GET /api/books request is dispatched to the handler GetBooks and
\* answered 200 with one entry per book id of the store, which carries the
\* title and author of that book.
BooksOf(stored) ==
    {[id |-> c.book_id, title |-> c.title, author |-> c.author] : c \in Range(stored)}

C19_GetBooksServed ==
    caller = "GET /api/books" =>
        /\ HandlerOf(caller) = "GetBooks"
        /\ outcome = "200"
        /\ Len(body.books) = Cardinality(BooksOf(store))
        /\ Range(body.books) = BooksOf(store)

\* ---------------------------------------------------------------------
\* The encodings of the six sentence terminators . ! ? U+3002 U+FF01 U+FF1F.
TerminatorEncodings ==
    {EncodeRune(r) : r \in {".", "!", "?", "U+3002", "U+FF01", "U+FF1F"}}

Max(S) == CHOOSE x \in S : \A y \in S : y <= x

\* The positions just after a terminator that lies in (lo, hi) and is
\* followed by whitespace or by the end of the text.
SentenceEnds(t, lo, hi) ==
    UNION {{i + Len(enc) : enc \in
                {e \in TerminatorEncodings :
                    /\ i + Len(e) <= hi
                    /\ Slice(t, i, i + Len(e)) = e
                    /\ (i + Len(e) >= Len(t) \/ IsSpace(At(t, i + Len(e))))}}
           : i \in (lo + 1)..(hi - 1)}

\* The positions just after a double newline that begins in (lo, hi).
ParagraphEnds(t, lo, hi) ==
    {i + 2 : i \in {j \in (lo + 1)..(hi - 1) :
                        j + 1 < Len(t) /\ At(t, j) = "\n" /\ At(t, j + 1) = "\n"}}

\* The positions just after a whitespace character in (lo, hi).
SpaceEnds(t, lo, hi) ==
    {i + 1 : i \in {j \in (lo + 1)..(hi - 1) : IsSpace(At(t, j))}}

BoundaryReturned == bndPc = "returned" /\ bndStart < bndEnd

\* C21  For start < end, findSentenceBoundary(text, start, end) returns the
\* position just after the last sentence terminator of (start, end) that is
\* followed by whitespace or by the end of the text; if there is none, the
\* position just after the last double newline of the range; if there is
\* none, the position just after the last whitespace of the range; if there
\* is none, end.
C21_TierOrder ==
    BoundaryReturned =>
        LET s1 == SentenceEnds(bndText, bndStart, bndEnd)
            s2 == ParagraphEnds(bndText, bndStart, bndEnd)
            s3 == SpaceEnds(bndText, bndStart, bndEnd)
        IN  bndReturn = IF s1 # {} THEN Max(s1)
                        ELSE IF s2 # {} THEN Max(s2)
                        ELSE IF s3 # {} THEN Max(s3)
                        ELSE bndEnd

\* ---------------------------------------------------------------------
\* C27  Whenever one of the six terminators lies in the search range of a
\* UTF-8 text and is followed by whitespace or by the end of the text,
\* findSentenceBoundary returns the position just after the last such
\* terminator.
C27_EveryTerminatorRecognised ==
    BoundaryReturned /\ SentenceEnds(bndText, bndStart, bndEnd) # {} =>
        bndReturn = Max(SentenceEnds(bndText, bndStart, bndEnd))

\* ---------------------------------------------------------------------
\* The loop of ChunkText has ended, and not by the iteration bound.
LoopEnded == Returned /\ stop \notin {"empty", "single", "maxIterations"}

\* C22  For size >= 1 and overlap >= 0 (overlap = 0 included) and a cleaned
\* text longer than size, the loop of ChunkText ends only when the window
\* start has reached the end of the cleaned text or when the iteration bound
\* is exceeded: unless the bound was hit, the start is at or beyond the end
\* of the text when the loop has ended, an emitted window ends at the end of
\* the text, and every position of the text lies in a window.
C22_LoopStopsOnlyAtEndOfText ==
    (LoopEnded /\ ChunkSize >= 1 /\ ChunkOverlap >= 0) =>
        /\ start >= Len(text)
        /\ \E n \in 1..Len(windows) : windows[n].emitted /\ windows[n].end = Len(text)
        /\ \A p \in 0..(Len(text) - 1) :
               \E n \in 1..Len(windows) : windows[n].start <= p /\ p < windows[n].end

\* ---------------------------------------------------------------------
\* C23  For size >= 1, overlap >= size and a cleaned text longer than size,
\* ChunkText does not fail, each window starts exactly one position after
\* the window before it, and unless the iteration bound was hit there is a
\* window for every start up to the end of the text.
C23_OverlapAtLeastSizeStepsByOne ==
    (cpc \in {"loop", "done", "panic"} /\ ChunkSize >= 1 /\ ChunkOverlap >= ChunkSize
        /\ Len(text) > ChunkSize) =>
        /\ cpc # "panic"
        /\ \A n \in 1..(Len(windows) - 1) : windows[n + 1].start = windows[n].start + 1
        /\ LoopEnded => start >= Len(text) /\ Len(windows) = Len(text)

\* ---------------------------------------------------------------------
\* The workers of the local batch that are inside the critical section, and
\* those that have left it.
InCriticalSection == {w \in 1..Len(texts) : wpc[w] \in {"store", "count"}}

Finished == {w \in 1..Len(texts) : wpc[w] = "done"}

C25_RemoteRequestsAreSequential ==
    Model # "simple" =>
        LET sent == RequestsBy("GenerateEmbeddingsBatch")
        IN  /\ inflight \in {0, 1}
            /\ \A k \in 1..Len(sent) : sent[k].item = k - 1
            /\ \A k \in 1..(Len(sent) - 1) : ~RequestFailed(sent[k])
            /\ inflight = 1 =>
                   /\ bi = Len(sent)
                   /\ \A k \in 1..Len(sent) : ~RequestFailed(sent[k])

\* A remote batch of two texts called with batchSize 2: the request of the
\* second text is in flight, after the first was answered with a vector.
C25_Witness ==
    /\ Model # "simple"
    /\ batchSize = 2
    /\ Len(texts) = 2
    /\ inflight = 1
    /\ Len(RequestsBy("GenerateEmbeddingsBatch")) = 1

\* ---------------------------------------------------------------------
\* C30  For every number N >= 0 of texts, the empty list included,
\* GenerateEmbeddingsBatch in local mode returns, with N vectors and no
\* error; for N = 0 the remote mode returns the empty list too.
C30_LocalBatchReturnsForEveryN ==
    /\ (Model = "simple" /\ bpc \notin {"call", "spawn"}) =>
           /\ bpc = "done"
           /\ ~batchResult.err
           /\ Len(batchResult.embeddings) = Len(texts)
    /\ (Model # "simple" /\ texts = <<>> /\ bpc \notin {"call", "remote", "waiting"}) =>
           /\ bpc = "done"
           /\ batchResult = [err |-> FALSE, embeddings |-> <<>>]

\* ---------------------------------------------------------------------
\* C26  For every text, size >= 1 and overlap >= 0, every window of
\* ChunkText has end - start <= size and every chunk emitted is non-empty
\* and at most size bytes long; the document "The cat sat. The dog ran.
\* Birds flew high." with size 20 and overlap 5 gives more than one chunk,
\* each non-empty and at most 25 bytes long.
C26_ChunksAtMostSize ==
    /\ (ChunkSize >= 1 /\ ChunkOverlap >= 0) =>
           /\ \A n \in 1..Len(windows) : windows[n].end - windows[n].start <= ChunkSize
           /\ \A n \in 1..Len(chunks) : Len(chunks[n]) >= 1 /\ Len(chunks[n]) <= ChunkSize
    /\ (Returned /\ input = Document /\ ChunkSize = 20 /\ ChunkOverlap = 5) =>
           /\ Len(chunks) > 1
           /\ \A n \in 1..Len(chunks) : Len(chunks[n]) >= 1 /\ Len(chunks[n]) <= 25

\* The call on the document has returned; its first chunk is the first
\* sentence, and a later chunk has the raw size.
C26_Witness ==
    /\ Returned
    /\ input = Document /\ ChunkSize = 20 /\ ChunkOverlap = 5
    /\ chunks[1] = SubSeq(Document, 1, 12)
    /\ \E n \in 1..Len(chunks) : Len(chunks[n]) = 19

\* ---------------------------------------------------------------------
\* C28  For every integer ChunkSize and ChunkOverlap, zero and negative
\* values included, and every text, ChunkText slices only windows with
\* 0 <= start <= end <= len(text): no call fails with a slice out of range.
C28_SlicesInRange ==
    /\ cpc # "panic"
    /\ \A n \in 1..Len(windows) :
           /\ 0 <= windows[n].start
           /\ windows[n].start <= windows[n].end
           /\ windows[n].end <= Len(text)

\* ---------------------------------------------------------------------
\* C29  The ends of the windows of the chunks ChunkText emits are strictly
\* increasing: no chunk is emitted after a window that has reached the end
\* of the cleaned text, and so at most one emitted window ends there.
C29_WindowEndsStrictlyIncrease ==
    /\ \A i \in 1..(Len(EmittedWindows) - 1) :
           EmittedWindows[i + 1].end > EmittedWindows[i].end
    /\ Cardinality({i \in 1..Len(EmittedWindows) :
                        EmittedWindows[i].end = Len(text)}) <= 1

====
